---- MODULE Spec2Model ----
(***************************************************************************)
(* Telemetry aggregation of the Windows 11 telemetry dashboard             *)
(* (dashboard.py, class SystemMetrics and the sampling loop of             *)
(* TelemetryDashboard) and of the Arduino telemetry client                 *)
(* (arduino_telemetry_client_multi_gpu.py, class TelemetryClient).         *)
(*                                                                         *)
(* Numbers that the Python code computes with float arithmetic are exact   *)
(* rationals <<numerator, denominator>> in lowest terms with a positive    *)
(* denominator, so two numbers are equal exactly when their pairs are.     *)
(* Strings that the code searches or slices are sequences of characters.   *)
(* Python's None is the empty sequence; an optional value v is <<v>>.      *)
(***************************************************************************)
EXTENDS Integers, Sequences, FiniteSets, TLC

(***************************************************************************)
(* Arithmetic                                                              *)
(***************************************************************************)
RECURSIVE Gcd(_, _)
Gcd(a, b) == IF b = 0 THEN a ELSE Gcd(b, a % b)

Abs(n) == IF n < 0 THEN -n ELSE n

\* the number n/d, d # 0
Rat(n, d) ==
    LET s == IF d < 0 THEN -1 ELSE 1
        g == Gcd(Abs(n), Abs(d))
    IN  <<(s * n) \div g, (s * d) \div g>>

Num(n) == <<n, 1>>

Add(a, b) == Rat(a[1] * b[2] + b[1] * a[2], a[2] * b[2])

Sub(a, b) == Rat(a[1] * b[2] - b[1] * a[2], a[2] * b[2])

Mul(a, b) == Rat(a[1] * b[1], a[2] * b[2])

\* a / b, b # 0
Div(a, b) == Rat(a[1] * b[2], a[2] * b[1])

Less(a, b) == a[1] * b[2] < b[1] * a[2]

\* Python's min(a, b): a unless b < a
Min(a, b) == IF Less(b, a) THEN b ELSE a

\* Python's int(x) for x >= 0 and x // 1
Floor(a) == a[1] \div a[2]

MiB == 1048576

(***************************************************************************)
(* None and optional values                                                *)
(***************************************************************************)
NoneVal == <<>>

Some(v) == <<v>>

IsNone(o) == o = <<>>

Get(o) == o[1]

(***************************************************************************)
(* Strings as sequences of characters                                      *)
(***************************************************************************)
\* Python's  sub in s
Contains(s, sub) ==
    \E i \in 1..(Len(s) - Len(sub) + 1) : SubSeq(s, i, i + Len(sub) - 1) = sub

\* Python's  s[:n]
Truncate(s, n) == IF Len(s) <= n THEN s ELSE SubSeq(s, 1, n)

\* Python's  s.split(' ', 1)[1] if ' ' in s else s
AfterFirstSpace(s) ==
    IF \E i \in 1..Len(s) : s[i] = " "
    THEN LET i == CHOOSE k \in 1..Len(s) :
                      s[k] = " " /\ \A j \in 1..(k - 1) : s[j] # " "
         IN  SubSeq(s, i + 1, Len(s))
    ELSE s

\* index of the first TRUE of a sequence of booleans, 0 when there is none
\* (a for loop that breaks at the first element passing its test)
FirstTrue(hits) ==
    IF \E i \in 1..Len(hits) : hits[i]
    THEN CHOOSE i \in 1..Len(hits) : hits[i] /\ \A j \in 1..(i - 1) : ~hits[j]
    ELSE 0

S_NVIDIA_ == <<"N", "V", "I", "D", "I", "A", " ">>
S_RTX == <<"R", "T", "X">>
S_GTX == <<"G", "T", "X">>
S_3090 == <<"3", "0", "9", "0">>
S_RX == <<"R", "X">>
S_Radeon == <<"R", "a", "d", "e", "o", "n">>
S_GeForce == <<"G", "e", "F", "o", "r", "c", "e">>
S_Microsoft == <<"M", "i", "c", "r", "o", "s", "o", "f", "t">>
S_Basic == <<"B", "a", "s", "i", "c">>
S_RTX_3090 == <<"R", "T", "X", " ", "3", "0", "9", "0">>
S_No_GPU_detected ==
    <<"N", "o", " ", "G", "P", "U", " ", "d", "e", "t", "e", "c", "t", "e", "d">>
S_GPU_Error == <<"G", "P", "U", " ", "E", "r", "r", "o", "r">>
S_No_GPU == <<"N", "o", " ", "G", "P", "U">>
S_Integrated_Graphics ==
    <<"I", "n", "t", "e", "g", "r", "a", "t", "e", "d", " ",
      "G", "r", "a", "p", "h", "i", "c", "s">>
S_Unknown_GPU == <<"U", "n", "k", "n", "o", "w", "n", " ", "G", "P", "U">>

(***************************************************************************)
(* SystemMetrics (dashboard.py)                                            *)
(***************************************************************************)
VARIABLES
    WMI_AVAILABLE,   \* module flags set at import (lines 22-52)
    GPU_AVAILABLE,
    NVML_AVAILABLE,
    AUDIO_AVAILABLE,
    metrics,         \* the SystemMetrics object: a record of its attributes
    passes,          \* number of update_metrics calls made so far
    completed,       \* the call numbers of the calls that returned normally
    raised,          \* whether the last update_metrics call raised
    env,             \* Some(environment of the last call), None before the first
    penv,            \* Some(environment of the call before the last)
    cenv,            \* the environment the two objects were constructed in
    client,          \* the TelemetryClient object: a record of its attributes
    gpu_call,        \* Some(environment and result of the last get_gpu_metrics call)
    sampler,         \* the sampling thread inside update_metrics: position and locals
    gui,             \* the GUI thread inside update_gui: position and the values read
    snapshots,       \* the displayed fields as every finished call left them
    telemetry,       \* Some(environment, local cpu_temp and packet of the last
                     \* collect_metrics call)
    running,         \* TelemetryDashboard.running
    runner           \* TelemetryClient.run: its position in the loop, the last return
                     \* values of connect_to_arduino and send_telemetry, and what
                     \* the loop has done to the socket

flags == <<WMI_AVAILABLE, GPU_AVAILABLE, NVML_AVAILABLE, AUDIO_AVAILABLE>>

max_history == 60

\* a deque without maxlen: nothing is evicted
DequeAppendUnbounded(d, x) == Append(d, x)

\* collections.deque(maxlen = max_history).append
DequeAppend(d, x) ==
    IF Len(d) >= max_history THEN Tail(d) \o <<x>> ELSE Append(d, x)

HistoryNames ==
    {"timestamps", "cpu_history", "memory_history", "disk_read_history",
     "disk_write_history", "network_sent_history", "network_recv_history",
     "temp_history", "gpu_usage_history", "gpu_memory_history",
     "gpu_temp_history", "audio_sample_rate_history", "audio_buffer_history"}

\* ---- update_metrics, in the order of its statements ------------------------
\* An environment e is what the platform returns during one call:
\*   e.time        time.time()
\*   e.psutil      cpu_percent, cpu_per_core, cpu_freq (None or MHz), memory,
\*                 disk_usage (None: the call raises; else used and total), boot_time,
\*                 cpu_percent_again (what a second cpu_percent call in the same
\*                 pass returns)
\*   e.disk_io, e.net_io   None or the cumulative counters
\*   e.probe, e.zone       WMI temperature queries: None when the query raises,
\*                 else the list of raw readings (numbers in tenths of Kelvin,
\*                 0 for no reading)
\*   e.nvml, e.gputil, e.wmi_gpu, e.audio   the GPU and audio backends

\* lines 223-235: CPU and memory
um_cpu_memory(self, e) ==
    [self EXCEPT
        !.cpu_percent = Num(e.psutil.cpu_percent),
        !.cpu_per_core = e.psutil.cpu_per_core,
        !.cpu_freq = IF IsNone(e.psutil.cpu_freq) THEN @ ELSE Num(Get(e.psutil.cpu_freq)),
        !.memory_percent = Num(e.psutil.memory.percent),
        !.memory_used = e.psutil.memory.used,
        !.memory_total = e.psutil.memory.total,
        !.memory_available = e.psutil.memory.available]

\* lines 237-245: disk throughput
um_disk(self, e, time_diff) ==
    IF ~IsNone(e.disk_io) /\ time_diff > 0
    THEN LET disk_io == Get(e.disk_io)
             read_diff == disk_io.read_bytes - self.prev_disk_read
             write_diff == disk_io.write_bytes - self.prev_disk_write
         IN  [self EXCEPT
                 !.disk_read_speed = Rat(read_diff, time_diff),
                 !.disk_write_speed = Rat(write_diff, time_diff),
                 !.prev_disk_read = disk_io.read_bytes,
                 !.prev_disk_write = disk_io.write_bytes]
    ELSE self

\* lines 247-249: psutil.disk_usage raises, or total is 0 and the division raises
um_disk_usage_raises(e) ==
    IF IsNone(e.psutil.disk_usage) THEN TRUE ELSE Get(e.psutil.disk_usage).total = 0

um_disk_usage(self, e) ==
    LET disk_usage == Get(e.psutil.disk_usage)
    IN  [self EXCEPT
            !.disk_usage_percent = Mul(Rat(disk_usage.used, disk_usage.total), Num(100))]

\* lines 251-261: network throughput
um_net(self, e, time_diff) ==
    IF ~IsNone(e.net_io) /\ time_diff > 0
    THEN LET net_io == Get(e.net_io)
             sent_diff == net_io.bytes_sent - self.prev_net_sent
             recv_diff == net_io.bytes_recv - self.prev_net_recv
         IN  [self EXCEPT
                 !.network_sent_speed = Rat(sent_diff, time_diff),
                 !.network_recv_speed = Rat(recv_diff, time_diff),
                 !.prev_net_sent = net_io.bytes_sent,
                 !.prev_net_recv = net_io.bytes_recv,
                 !.network_total_sent = net_io.bytes_sent,
                 !.network_total_recv = net_io.bytes_recv]
    ELSE self

\* tenths of Kelvin to Celsius: (reading / 10.0) - 273.15
KelvinTenthsToCelsius(reading) == Sub(Div(reading, Num(10)), Rat(27315, 100))

\* 0 <= temp_celsius <= 150
PlausibleTemp_inclusive(temp_celsius) ==
    ~Less(temp_celsius, Num(0)) /\ ~Less(Num(150), temp_celsius)

\* 0 < temp_celsius < 150
PlausibleTemp(temp_celsius) == Less(Num(0), temp_celsius) /\ Less(temp_celsius, Num(150))

\* the loops of lines 302-308 and 314-321: the first reading that is set and plausible
FirstPlausible(readings) ==
    LET Hit(r) == r # Num(0) /\ PlausibleTemp(KelvinTenthsToCelsius(r))
        i == FirstTrue([j \in 1..Len(readings) |-> Hit(readings[j])])
    IN  IF i = 0 THEN NoneVal ELSE Some(KelvinTenthsToCelsius(readings[i]))

\* the estimate with the load taken as a fraction already
EstimateCpuTemp_undivided(cpu_percent) == Add(Num(35), Mul(cpu_percent, Num(30)))

\* lines 328-332: the estimate from the CPU load
EstimateCpuTemp(cpu_percent) ==
    LET base_temp == Num(35)
        load_factor == Div(cpu_percent, Num(100))
    IN  Add(base_temp, Mul(load_factor, Num(30)))

\* update_temperature without the estimate of lines 328-332
update_temperature_no_estimate(self, e) ==
    [self EXCEPT
        !.cpu_temp = IF self.wmi_conn /\ ~IsNone(e.probe) THEN FirstPlausible(Get(e.probe))
                     ELSE NoneVal]

\* lines 295-332
update_temperature(self, e) ==
    LET fromProbe == IF IsNone(e.probe) THEN NoneVal ELSE FirstPlausible(Get(e.probe))
        \* the zone query runs only when the probe query returned and found nothing
        fromZone == IF IsNone(e.probe) \/ ~IsNone(fromProbe) \/ IsNone(e.zone)
                    THEN NoneVal ELSE FirstPlausible(Get(e.zone))
        found == IF ~self.wmi_conn THEN NoneVal
                 ELSE IF ~IsNone(fromProbe) THEN fromProbe ELSE fromZone
    IN  [self EXCEPT
            !.cpu_temp = IF IsNone(found) THEN EstimateCpuTemp(self.cpu_percent)
                         ELSE Get(found)]

\* ---- update_gpu_metrics (lines 334-452) ------------------------------------
\* Each branch returns the object as it leaves it and whether the method returned
\* there (done) or went on to the next backend.

\* lines 338-360 with a handler that gives NVML up: a raising call clears
\* nvml_initialized
gpu_nvml_gives_up(self, nv) ==
    IF ~nv.handle_ok \/ IsNone(nv.util)
    THEN [s |-> [self EXCEPT !.nvml_initialized = FALSE], done |-> FALSE]
    ELSE LET s1 == [self EXCEPT !.gpu_usage = Num(Get(nv.util))]
         IN  IF IsNone(nv.mem)
             THEN [s |-> [s1 EXCEPT !.nvml_initialized = FALSE], done |-> FALSE]
             ELSE LET mem_info == Get(nv.mem)
                      s2 == [s1 EXCEPT
                                !.gpu_memory_used = mem_info.used \div MiB,
                                !.gpu_memory_total = mem_info.total \div MiB]
                  IN  IF mem_info.total = 0
                      THEN [s |-> [s2 EXCEPT !.nvml_initialized = FALSE], done |-> FALSE]
                      ELSE [s |-> [s2 EXCEPT
                                     !.gpu_memory_percent =
                                         Mul(Rat(mem_info.used, mem_info.total), Num(100)),
                                     !.gpu_temp = IF IsNone(nv.temp) THEN Num(0)
                                                  ELSE Num(Get(nv.temp))],
                            done |-> TRUE]

\* lines 338-360.  e.nvml: handle_ok; util, mem, temp are None when the call raises
gpu_nvml(self, nv) ==
    IF ~nv.handle_ok \/ IsNone(nv.util)
    THEN [s |-> self, done |-> FALSE]
    ELSE LET s1 == [self EXCEPT !.gpu_usage = Num(Get(nv.util))]
         IN  IF IsNone(nv.mem)
             THEN [s |-> s1, done |-> FALSE]
             ELSE LET mem_info == Get(nv.mem)
                      s2 == [s1 EXCEPT
                                !.gpu_memory_used = mem_info.used \div MiB,
                                !.gpu_memory_total = mem_info.total \div MiB]
                  IN  IF mem_info.total = 0
                      THEN [s |-> s2, done |-> FALSE]    \* ZeroDivisionError
                      ELSE [s |-> [s2 EXCEPT
                                     !.gpu_memory_percent =
                                         Mul(Rat(mem_info.used, mem_info.total), Num(100)),
                                     !.gpu_temp = IF IsNone(nv.temp) THEN Num(0)
                                                  ELSE Num(Get(nv.temp))],
                            done |-> TRUE]

\* max(gpus, key=lambda g: g.memoryTotal if g.memoryTotal else 0): the first of
\* the devices with the largest memoryTotal
MaxMemoryGpu(gpus) ==
    LET i == CHOOSE k \in 1..Len(gpus) :
                 /\ \A j \in 1..Len(gpus) : gpus[j].memoryTotal <= gpus[k].memoryTotal
                 /\ \A j \in 1..(k - 1) : gpus[j].memoryTotal < gpus[k].memoryTotal
    IN  gpus[i]

\* lines 363-379.  g: None when GPUtil.getGPUs() raises, else the device list;
\* a device's load is a fraction or None, its temperature a number or None
gpu_gputil(self, g) ==
    IF IsNone(g) \/ Get(g) = <<>>
    THEN [s |-> self, done |-> FALSE]
    ELSE LET primary_gpu == MaxMemoryGpu(Get(g))
         IN  IF IsNone(primary_gpu.load)
             THEN [s |-> self, done |-> FALSE]           \* None * 100: TypeError
             ELSE [s |-> [self EXCEPT
                            !.gpu_usage = Mul(primary_gpu.load, Num(100)),
                            !.gpu_memory_used = primary_gpu.memoryUsed,
                            !.gpu_memory_total = primary_gpu.memoryTotal,
                            !.gpu_memory_percent =
                                IF primary_gpu.memoryTotal > 0
                                THEN Mul(Rat(primary_gpu.memoryUsed, primary_gpu.memoryTotal),
                                         Num(100))
                                ELSE Num(0),
                            !.gpu_temp =
                                IF IsNone(primary_gpu.temperature)
                                     \/ primary_gpu.temperature = Num(0)
                                THEN Num(0) ELSE primary_gpu.temperature,
                            !.gpu_name = primary_gpu.name],
                   done |-> TRUE]

\* lines 391-393: a named adapter that is not a Microsoft / Basic software adapter
IsPhysicalAdapter(gpu) ==
    gpu.Name # <<>> /\ ~Contains(gpu.Name, S_Microsoft) /\ ~Contains(gpu.Name, S_Basic)

\* lines 397-405: the first RTX / GeForce adapter, else the first adapter
WmiPrimary(discrete_gpus) ==
    LET IsNvidia(gpu) == Contains(gpu.Name, S_RTX) \/ Contains(gpu.Name, S_GeForce)
        i == FirstTrue([j \in 1..Len(discrete_gpus) |-> IsNvidia(discrete_gpus[j])])
    IN  IF i = 0 THEN discrete_gpus[1] ELSE discrete_gpus[i]

\* lines 382-434.  w: None when the WMI query raises, else the adapter list;
\* an adapter's AdapterRAM is 0 when it is missing
gpu_wmi(self, w) ==
    IF IsNone(w)
    THEN [s |-> self, done |-> FALSE]
    ELSE LET discrete_gpus == SelectSeq(Get(w), IsPhysicalAdapter)
         IN  IF discrete_gpus = <<>>
             THEN [s |-> self, done |-> FALSE]
             ELSE LET primary_gpu == WmiPrimary(discrete_gpus)
                      total == IF primary_gpu.AdapterRAM # 0
                               THEN primary_gpu.AdapterRAM \div MiB
                               ELSE IF Contains(primary_gpu.Name, S_RTX_3090)
                                    THEN 24576 ELSE 8192
                      frac == IF primary_gpu.AdapterRAM # 0 THEN 25
                              ELSE IF Contains(primary_gpu.Name, S_RTX_3090)
                                   THEN 20 ELSE 15
                  IN  [s |-> [self EXCEPT
                                !.gpu_name = primary_gpu.Name,
                                !.gpu_usage =
                                    Min(Mul(self.cpu_percent, Rat(7, 10)), Num(100)),
                                !.gpu_memory_total = total,
                                !.gpu_memory_used = Floor(Mul(Num(total), Rat(frac, 100))),
                                !.gpu_memory_percent = Num(frac),
                                !.gpu_temp = Num(0)],
                       done |-> TRUE]

\* lines 436-442
gpu_none(self) ==
    [self EXCEPT
        !.gpu_usage = Num(0), !.gpu_memory_used = 0, !.gpu_memory_total = 0,
        !.gpu_memory_percent = Num(0), !.gpu_temp = Num(0),
        !.gpu_name = S_No_GPU_detected]

NotDone(self) == [s |-> self, done |-> FALSE]

\* line 338
gpu_try_nvml(self, e) ==
    IF self.nvml_initialized /\ NVML_AVAILABLE THEN gpu_nvml(self, e.nvml) ELSE NotDone(self)

\* line 363, reached unless the NVML branch returned
gpu_try_gputil(a, e) ==
    IF a.done THEN a
    ELSE IF GPU_AVAILABLE THEN gpu_gputil(a.s, e.gputil) ELSE a

\* line 382, reached unless an earlier branch returned
gpu_try_wmi(b, e) ==
    IF b.done THEN b
    ELSE IF WMI_AVAILABLE THEN gpu_wmi(b.s, e.wmi_gpu) ELSE b

\* lines 436-442, reached unless a branch returned
gpu_finish(c) == [s |-> IF c.done THEN c.s ELSE gpu_none(c.s), exc |-> FALSE]

\* lines 334-452: the result and whether an exception left the method
update_gpu_metrics(self, e) ==
    gpu_finish(gpu_try_wmi(gpu_try_gputil(gpu_try_nvml(self, e), e), e))

\* ---- update_audio_metrics (lines 454-523) ----------------------------------
\* au.speakers: "raise", "present" or "none";  au.sessions: None when
\* GetAllSessions raises, else the number of active sessions
update_audio_metrics(self, au) ==
    IF ~AUDIO_AVAILABLE THEN self
    ELSE IF au.speakers = "raise" \/ (au.speakers = "present" /\ IsNone(au.sessions))
    THEN [self EXCEPT
             !.audio_sample_rate = 44100, !.audio_bit_depth = 16,
             !.audio_channels = 2, !.audio_buffer_size = 1024,
             !.audio_device_count = 0,
             !.audio_device_name = "Audio Device (Limited Info)",
             !.audio_format = "16-bit 44.1kHz Stereo"]
    ELSE IF au.speakers = "present"
    THEN [self EXCEPT
             !.audio_sample_rate = 48000, !.audio_bit_depth = 24,
             !.audio_channels = 2, !.audio_buffer_size = 480,
             !.audio_device_count = Get(au.sessions),
             !.audio_device_name = IF Get(au.sessions) > 0
                                   THEN "Audio Device (n sessions)"
                                   ELSE "Default Audio Device",
             !.audio_format = "24-bit 48000Hz 2ch"]
    ELSE [self EXCEPT
             !.audio_sample_rate = 0, !.audio_bit_depth = 0,
             !.audio_channels = 0, !.audio_buffer_size = 0,
             !.audio_device_count = 0,
             !.audio_device_name = "No Audio Device",
             !.audio_format = "No Audio"]

\* lines 272-276: the uptime shown is current_time - boot_time in whole seconds
um_uptime(self, e, current_time) ==
    [self EXCEPT !.system_uptime = current_time - e.psutil.boot_time]

\* a history entry: the value appended and the call (tick) that appended it
Entry(k, value) == [tick |-> k, v |-> value]

\* lines 278-291, by call number k
um_history(self, e, k) ==
    [self EXCEPT
        !.timestamps = DequeAppend(@, Entry(k, Num(e.time))),
        !.cpu_history = DequeAppend(@, Entry(k, self.cpu_percent)),
        !.memory_history = DequeAppend(@, Entry(k, self.memory_percent)),
        !.disk_read_history =
            DequeAppend(@, Entry(k, Div(self.disk_read_speed, Num(1024 * 1024)))),
        !.disk_write_history =
            DequeAppend(@, Entry(k, Div(self.disk_write_speed, Num(1024 * 1024)))),
        !.network_sent_history =
            DequeAppend(@, Entry(k, Div(self.network_sent_speed, Num(1024 * 1024)))),
        !.network_recv_history =
            DequeAppend(@, Entry(k, Div(self.network_recv_speed, Num(1024 * 1024)))),
        !.temp_history = DequeAppend(@, Entry(k, self.cpu_temp)),
        !.gpu_usage_history = DequeAppend(@, Entry(k, self.gpu_usage)),
        !.gpu_memory_history = DequeAppend(@, Entry(k, self.gpu_memory_percent)),
        !.gpu_temp_history = DequeAppend(@, Entry(k, self.gpu_temp)),
        !.audio_sample_rate_history =
            DequeAppend(@, Entry(k, Rat(self.audio_sample_rate, 1000))),
        !.audio_buffer_history = DequeAppend(@, Entry(k, Num(self.audio_buffer_size)))]

\* line 293
um_prev_time(self, current_time) == [self EXCEPT !.prev_time = current_time]

\* lines 263-293, reached when nothing raised before: temperature, GPU, audio,
\* uptime, history, prev_time
um_finish(g, e, k) ==
    IF g.exc
    THEN [s |-> g.s, exc |-> TRUE]
    ELSE [s |-> um_prev_time(
                   um_history(um_uptime(update_audio_metrics(g.s, e.audio), e, e.time),
                              e, k),
                   e.time),
          exc |-> FALSE]

\* lines 247-293, from the object s2 as the disk block leaves it
um_after_disk(s2, e, time_diff, k) ==
    IF um_disk_usage_raises(e)
    THEN [s |-> s2, exc |-> TRUE]
    ELSE um_finish(
             update_gpu_metrics(
                 update_temperature(um_net(um_disk_usage(s2, e), e, time_diff), e), e),
             e, k)

\* lines 218-293: call number k under environment e; exc: the call raised.
\* current_time is e.time, time_diff is current_time - self.prev_time
update_metrics(self, e, k) ==
    um_after_disk(um_disk(um_cpu_memory(self, e), e, e.time - self.prev_time),
                  e, e.time - self.prev_time, k)

\* ---- __init__ (lines 57-216) -----------------------------------------------
\* c is what the platform returns during construction:
\*   c.time, c.cpu_count;  c.wmi_connect: whether one of the two wmi.WMI() calls works;
\*   c.nvml: init_ok; count (None when nvmlDeviceGetCount raises); names: per device
\*           the name nvmlDeviceGetName returns, None where the handle or name call raises;
\*   c.gputil: None when getGPUs raises, else the device list;
\*   c.wmi_gpu: None when the Win32_VideoController listing raises, else the adapters;
\*   c.audio: speakers ("raise", "present", "none"), mic, sessions (None: raises)

\* lines 136-151
init_nvml(self, nv) ==
    IF ~NVML_AVAILABLE \/ ~nv.init_ok THEN self
    ELSE IF IsNone(nv.count) THEN self          \* the handler resets nvml_initialized
    ELSE IF Get(nv.count) = 0 THEN [self EXCEPT !.nvml_initialized = TRUE]
    ELSE IF IsNone(nv.names[1]) THEN self       \* the handler resets nvml_initialized
    ELSE [self EXCEPT !.nvml_initialized = TRUE, !.gpu_name = Get(nv.names[1])]

\* lines 153-166
init_gputil(self, g) ==
    IF ~GPU_AVAILABLE \/ IsNone(g) THEN self
    ELSE [self EXCEPT
            !.gpu_list = Get(g),
            !.gpu_name = IF Get(g) # <<>> THEN MaxMemoryGpu(Get(g)).name ELSE @]

\* lines 180-216
init_audio(self, au) ==
    IF ~AUDIO_AVAILABLE THEN self
    ELSE IF au.speakers = "raise"
    THEN [self EXCEPT !.audio_device_name = "Audio Device"]
    ELSE LET devices == (IF au.speakers = "present" THEN <<"Default Playback">> ELSE <<>>)
                        \o (IF au.mic THEN <<"Default Recording">> ELSE <<>>)
             named == IF au.speakers = "present"
                      THEN [self EXCEPT !.audio_device_name = "Default Playback Device",
                                        !.audio_devices = devices]
                      ELSE [self EXCEPT !.audio_devices = devices]
         IN  IF IsNone(au.sessions)
             THEN [named EXCEPT !.audio_device_name = "Audio Device"]
             ELSE [named EXCEPT !.audio_device_count = Get(au.sessions)]

\* lines 58-131: the attributes as first assigned
init_fields(c) ==
    [cpu_percent |-> Num(0), cpu_freq |-> Num(0), cpu_cores |-> c.cpu_count,
     cpu_per_core |-> <<>>,
     memory_percent |-> Num(0), memory_used |-> 0, memory_total |-> 0,
     memory_available |-> 0,
     disk_read_speed |-> Num(0), disk_write_speed |-> Num(0),
     disk_usage_percent |-> Num(0),
     network_sent_speed |-> Num(0), network_recv_speed |-> Num(0),
     network_total_sent |-> 0, network_total_recv |-> 0,
     cpu_temp |-> Num(0), system_uptime |-> 0,
     gpu_usage |-> Num(0), gpu_memory_used |-> 0, gpu_memory_total |-> 0,
     gpu_memory_percent |-> Num(0), gpu_temp |-> Num(0),
     gpu_name |-> S_No_GPU_detected,
     audio_sample_rate |-> 0, audio_bit_depth |-> 0, audio_channels |-> 0,
     audio_buffer_size |-> 0, audio_device_name |-> "No audio device",
     audio_format |-> "Unknown", audio_devices |-> <<>>, audio_device_count |-> 0,
     prev_disk_read |-> 0, prev_disk_write |-> 0,
     prev_net_sent |-> 0, prev_net_recv |-> 0, prev_time |-> c.time,
     timestamps |-> <<>>, cpu_history |-> <<>>, memory_history |-> <<>>,
     disk_read_history |-> <<>>, disk_write_history |-> <<>>,
     network_sent_history |-> <<>>, network_recv_history |-> <<>>,
     temp_history |-> <<>>, gpu_usage_history |-> <<>>,
     gpu_memory_history |-> <<>>, gpu_temp_history |-> <<>>,
     audio_sample_rate_history |-> <<>>, audio_buffer_history |-> <<>>,
     wmi_conn |-> WMI_AVAILABLE /\ c.wmi_connect,
     gpu_list |-> <<>>, nvml_initialized |-> FALSE]

SystemMetrics_init(c) ==
    init_audio(init_gputil(init_nvml(init_fields(c), c.nvml), c.gputil), c.audio)

(***************************************************************************)
(* TelemetryClient (arduino_telemetry_client_multi_gpu.py)                 *)
(***************************************************************************)
\* ---- __init__ (lines 37-129), under the construction environment c ---------

\* lines 38-55: the attributes as first assigned
client_fields(c) ==
    [running |-> FALSE, socket |-> NoneVal,
     prev_disk_read |-> 0, prev_disk_write |-> 0,
     prev_net_sent |-> 0, prev_net_recv |-> 0, prev_time |-> c.time,
     gpu_initialized |-> FALSE, gpu_available |-> FALSE,
     nvidia_gpus |-> <<>>, all_gpus |-> <<>>, primary_gpu_method |-> NoneVal]

\* lines 66-70: the loop over the NVML devices from device i on, left at the
\* first device whose handle or name call raises
RECURSIVE client_nvml_loop(_, _, _)
client_nvml_loop(self, names, i) ==
    IF i > Len(names) \/ IsNone(names[i]) THEN self
    ELSE client_nvml_loop(
             [self EXCEPT
                 !.nvidia_gpus = Append(@, [idx |-> i - 1, name |-> Get(names[i])]),
                 !.all_gpus = Append(@, S_NVIDIA_ \o Get(names[i]))],
             names, i + 1)

\* lines 57-77
client_init_nvml(self, nv) ==
    IF ~NVML_AVAILABLE \/ ~nv.init_ok \/ IsNone(nv.count) THEN self
    ELSE IF Get(nv.count) > 0
    THEN client_nvml_loop(
             [self EXCEPT !.gpu_initialized = TRUE, !.gpu_available = TRUE,
                          !.primary_gpu_method = Some("NVML")],
             nv.names, 1)
    ELSE self

\* lines 89-92: the loop over the GPUtil devices from device i on; a name is
\* added unless it equals an entry with its first word removed
RECURSIVE client_gputil_loop(_, _, _)
client_gputil_loop(all_gpus, gpus, i) ==
    IF i > Len(gpus) THEN all_gpus
    ELSE client_gputil_loop(
             IF \E j \in 1..Len(all_gpus) : AfterFirstSpace(all_gpus[j]) = gpus[i].name
             THEN all_gpus ELSE Append(all_gpus, gpus[i].name),
             gpus, i + 1)

\* lines 79-95
client_init_gputil(self, g) ==
    IF ~GPU_AVAILABLE \/ IsNone(g) \/ Get(g) = <<>> THEN self
    ELSE [self EXCEPT
            !.gpu_available = TRUE,
            !.primary_gpu_method = IF self.gpu_available THEN @ ELSE Some("GPUtil"),
            !.all_gpus = client_gputil_loop(@, Get(g), 1)]

\* lines 104-108: the loop over the WMI adapters from adapter i on; a physical
\* adapter's name is added unless it equals an entry
RECURSIVE client_wmi_loop(_, _, _)
client_wmi_loop(all_gpus, adapters, i) ==
    IF i > Len(adapters) THEN all_gpus
    ELSE client_wmi_loop(
             IF IsPhysicalAdapter(adapters[i])
                  /\ ~\E j \in 1..Len(all_gpus) : all_gpus[j] = adapters[i].Name
             THEN Append(all_gpus, adapters[i].Name) ELSE all_gpus,
             adapters, i + 1)

\* lines 98-120
client_init_wmi(self, w) ==
    IF ~WMI_AVAILABLE \/ IsNone(w) THEN self
    ELSE LET wmi_gpus == SelectSeq(Get(w), IsPhysicalAdapter)
         IN  [self EXCEPT
                 !.all_gpus = client_wmi_loop(@, Get(w), 1),
                 !.gpu_available = @ \/ wmi_gpus # <<>>,
                 !.primary_gpu_method =
                     IF wmi_gpus # <<>> /\ ~self.gpu_available THEN Some("WMI") ELSE @]

TelemetryClient_init(c) ==
    client_init_wmi(
        client_init_gputil(client_init_nvml(client_fields(c), c.nvml), c.gputil),
        c.wmi_gpu)

\* ---- get_gpu_metrics (lines 246-377) -----------------------------------------
\* The locals gpu_usage, gpu_memory_percent, gpu_temp, gpu_name are a record;
\* each branch returns the locals as it leaves them and whether the method
\* returned there (done) or went on.

\* lines 248-251
gm_locals ==
    [gpu_usage |-> Num(0), gpu_memory_percent |-> Num(0), gpu_temp |-> Num(0),
     gpu_name |-> S_No_GPU]

\* "RTX" in name or "GTX" in name or "3090" in name
IsNvidiaName(name) ==
    Contains(name, S_RTX) \/ Contains(name, S_GTX) \/ Contains(name, S_3090)

\* "RX" in name or "Radeon" in name
IsAmdName(name) == Contains(name, S_RX) \/ Contains(name, S_Radeon)

\* lines 257-261: the first device with an NVIDIA keyword, else the first device
NvmlPrimary(nvidia_gpus) ==
    LET i == FirstTrue([j \in 1..Len(nvidia_gpus) |-> IsNvidiaName(nvidia_gpus[j].name)])
    IN  IF i = 0 THEN nvidia_gpus[1] ELSE nvidia_gpus[i]

\* lines 254-284.  nv.util, nv.mem, nv.temp are None when the call raises
gm_nvml(loc, nvidia_gpus, nv) ==
    IF IsNone(nv.util)
    THEN [r |-> loc, done |-> FALSE]
    ELSE IF IsNone(nv.mem) \/ Get(nv.mem).total = 0
    THEN [r |-> [loc EXCEPT !.gpu_usage = Num(Get(nv.util))], done |-> FALSE]
    ELSE [r |-> [gpu_usage |-> Num(Get(nv.util)),
                 gpu_memory_percent |->
                     Mul(Rat(Get(nv.mem).used, Get(nv.mem).total), Num(100)),
                 gpu_temp |-> IF IsNone(nv.temp) THEN Num(45) ELSE Num(Get(nv.temp)),
                 gpu_name |-> NvmlPrimary(nvidia_gpus).name],
          done |-> TRUE]

\* lines 295-296: the test of the loop that looks for a discrete GPU
IsDiscreteGputil(gpu) ==
    gpu.name # <<>>
    /\ (IsNvidiaName(gpu.name) \/ Contains(gpu.name, S_RX) \/ gpu.memoryTotal > 4000)

\* lines 293-301: the first device passing the test, else the first device
GputilTarget(gpus) ==
    LET i == FirstTrue([j \in 1..Len(gpus) |-> IsDiscreteGputil(gpus[j])])
    IN  IF i = 0 THEN gpus[1] ELSE gpus[i]

\* lines 287-312 with the temperature tested for truth, not for None
gm_gputil_truthy(loc, g) ==
    IF IsNone(g) \/ Get(g) = <<>>
    THEN [r |-> loc, done |-> FALSE]
    ELSE LET target_gpu == GputilTarget(Get(g))
         IN  [r |-> [gpu_usage |-> IF IsNone(target_gpu.load) THEN Num(0)
                                   ELSE Mul(target_gpu.load, Num(100)),
                     gpu_memory_percent |->
                         IF target_gpu.memoryTotal > 0
                         THEN Mul(Rat(target_gpu.memoryUsed, target_gpu.memoryTotal),
                                  Num(100))
                         ELSE Num(0),
                     gpu_temp |-> IF IsNone(target_gpu.temperature)
                                       \/ target_gpu.temperature = Num(0)
                                  THEN Num(45)
                                  ELSE target_gpu.temperature,
                     gpu_name |-> IF target_gpu.name # <<>> THEN target_gpu.name
                                  ELSE S_Unknown_GPU],
              done |-> TRUE]

\* lines 287-312.  g: None when GPUtil.getGPUs() raises, else the device list
gm_gputil(loc, g) ==
    IF IsNone(g) \/ Get(g) = <<>>
    THEN [r |-> loc, done |-> FALSE]
    ELSE LET target_gpu == GputilTarget(Get(g))
         IN  [r |-> [gpu_usage |-> IF IsNone(target_gpu.load) THEN Num(0)
                                   ELSE Mul(target_gpu.load, Num(100)),
                     gpu_memory_percent |->
                         IF target_gpu.memoryTotal > 0
                         THEN Mul(Rat(target_gpu.memoryUsed, target_gpu.memoryTotal),
                                  Num(100))
                         ELSE Num(0),
                     gpu_temp |-> IF IsNone(target_gpu.temperature) THEN Num(45)
                                  ELSE target_gpu.temperature,
                     gpu_name |-> IF target_gpu.name # <<>> THEN target_gpu.name
                                  ELSE S_Unknown_GPU],
              done |-> TRUE]

Reverse(s) == [i \in 1..Len(s) |-> s[Len(s) + 1 - i]]

\* lines 319-339: the adapter used: NVIDIA adapters are inserted at the front of
\* discrete_gpus, AMD adapters appended, the others go to integrated_gpus
WmiTarget(adapters) ==
    LET physical == SelectSeq(adapters, IsPhysicalAdapter)
        IsNvidia(gpu) == IsNvidiaName(gpu.Name)
        IsAmd(gpu) == ~IsNvidiaName(gpu.Name) /\ IsAmdName(gpu.Name)
        IsOther(gpu) == ~IsNvidiaName(gpu.Name) /\ ~IsAmdName(gpu.Name)
        discrete_gpus == Reverse(SelectSeq(physical, IsNvidia)) \o SelectSeq(physical, IsAmd)
        integrated_gpus == SelectSeq(physical, IsOther)
    IN  IF discrete_gpus # <<>> THEN Some(discrete_gpus[1])
        ELSE IF integrated_gpus # <<>> THEN Some(integrated_gpus[1])
        ELSE NoneVal

\* lines 348-359: usage, memory percent and temperature estimated from the CPU
\* load by the class of the (truncated) name
WmiEstimate(gpu_name, cpu_percent) ==
    LET usage(k) == Min(Mul(Num(cpu_percent), k), Num(100))
    IN  IF IsNvidiaName(gpu_name)
        THEN [gpu_usage |-> usage(Rat(4, 5)), gpu_memory_percent |-> Num(30),
              gpu_temp |-> Add(Num(50), Mul(usage(Rat(4, 5)), Rat(2, 5))),
              gpu_name |-> gpu_name]
        ELSE IF IsAmdName(gpu_name)
        THEN [gpu_usage |-> usage(Rat(7, 10)), gpu_memory_percent |-> Num(25),
              gpu_temp |-> Add(Num(45), Mul(usage(Rat(7, 10)), Rat(3, 10))),
              gpu_name |-> gpu_name]
        ELSE [gpu_usage |-> usage(Rat(2, 5)), gpu_memory_percent |-> Num(15),
              gpu_temp |-> Add(Num(40), Mul(usage(Rat(2, 5)), Rat(1, 5))),
              gpu_name |-> gpu_name]

\* lines 314-365.  w: None when the WMI listing raises, else the adapter list;
\* cpu_percent: the psutil.cpu_percent reading of line 345
gm_wmi(loc, w, cpu_percent) ==
    IF IsNone(w) \/ IsNone(WmiTarget(Get(w)))
    THEN [r |-> loc, done |-> FALSE]
    ELSE [r |-> WmiEstimate(Truncate(Get(WmiTarget(Get(w))).Name, 20), cpu_percent),
          done |-> TRUE]

\* lines 367-377 without the estimate: the locals are returned as they stand
gm_fallback_keeps_locals(loc, cpu_percent) == loc

\* lines 367-375: the estimate when no branch named a GPU;
\* cpu_percent: the psutil.cpu_percent reading of line 370
gm_fallback(loc, cpu_percent) ==
    IF loc.gpu_name = S_No_GPU
    THEN [gpu_name |-> S_Integrated_Graphics,
          gpu_usage |-> Min(Mul(Num(cpu_percent), Rat(2, 5)), Num(100)),
          gpu_memory_percent |-> Num(15),
          gpu_temp |-> Add(Num(40),
                           Mul(Min(Mul(Num(cpu_percent), Rat(2, 5)), Num(100)), Rat(1, 5)))]
    ELSE loc

\* line 254
gm_try_nvml(self, e) ==
    IF self.gpu_initialized /\ NVML_AVAILABLE /\ self.nvidia_gpus # <<>>
    THEN gm_nvml(gm_locals, self.nvidia_gpus, e.nvml)
    ELSE [r |-> gm_locals, done |-> FALSE]

\* line 288, reached unless the NVML branch returned
gm_try_gputil(a, e) ==
    IF a.done THEN a
    ELSE IF GPU_AVAILABLE THEN gm_gputil(a.r, e.gputil) ELSE a

\* line 316, reached unless an earlier branch returned
gm_try_wmi(b, e) ==
    IF b.done THEN b
    ELSE IF WMI_AVAILABLE THEN gm_wmi(b.r, e.wmi_gpu, e.psutil.cpu_percent_again) ELSE b

\* lines 366-377, reached unless a branch returned
gm_finish(c, e) ==
    [r |-> IF c.done THEN c.r ELSE gm_fallback(c.r, e.psutil.cpu_percent_again),
     exc |-> FALSE]

\* lines 246-377: the tuple returned (r) and whether an exception left the method
get_gpu_metrics(self, e) ==
    gm_finish(gm_try_wmi(gm_try_gputil(gm_try_nvml(self, e), e), e), e)

\* ---- get_cpu_temperature and collect_metrics (lines 131-244) ------------------
\* Python's round(x, ndigits) for ndigits 0 and 1: to the nearest multiple of
\* 10^-ndigits, a tie to the even one
Round(x, ndigits) ==
    LET scale == IF ndigits = 0 THEN 1 ELSE 10
        scaled == Mul(x, Num(scale))
        lo == Floor(scaled)
        twice == Mul(Sub(scaled, Num(lo)), Num(2))
    IN  IF Less(twice, Num(1)) THEN Rat(lo, scale)
        ELSE IF Less(Num(1), twice) THEN Rat(lo + 1, scale)
        ELSE IF lo % 2 = 0 THEN Rat(lo, scale) ELSE Rat(lo + 1, scale)

\* lines 228-244.  e.probe: None when the connection or the query raises
get_cpu_temperature(e, cpu_percent) ==
    LET found == IF WMI_AVAILABLE /\ ~IsNone(e.probe)
                 THEN FirstPlausible(Get(e.probe)) ELSE NoneVal
    IN  IF IsNone(found) THEN EstimateCpuTemp(cpu_percent) ELSE Get(found)

\* lines 148-158: disk throughput in MB/s and the baseline it leaves
cm_disk(self, e, time_diff) ==
    IF ~IsNone(e.disk_io) /\ time_diff > 0
    THEN LET disk_io == Get(e.disk_io)
         IN  [s |-> [self EXCEPT !.prev_disk_read = disk_io.read_bytes,
                                 !.prev_disk_write = disk_io.write_bytes],
              disk_read_speed |->
                  Div(Rat(disk_io.read_bytes - self.prev_disk_read, time_diff), Num(MiB)),
              disk_write_speed |->
                  Div(Rat(disk_io.write_bytes - self.prev_disk_write, time_diff), Num(MiB))]
    ELSE [s |-> self, disk_read_speed |-> Num(0), disk_write_speed |-> Num(0)]

\* lines 164-174: network throughput in MB/s and the baseline it leaves
cm_net(self, e, time_diff) ==
    IF ~IsNone(e.net_io) /\ time_diff > 0
    THEN LET net_io == Get(e.net_io)
         IN  [s |-> [self EXCEPT !.prev_net_sent = net_io.bytes_sent,
                                 !.prev_net_recv = net_io.bytes_recv],
              network_sent_speed |->
                  Div(Rat(net_io.bytes_sent - self.prev_net_sent, time_diff), Num(MiB)),
              network_recv_speed |->
                  Div(Rat(net_io.bytes_recv - self.prev_net_recv, time_diff), Num(MiB))]
    ELSE [s |-> self, network_sent_speed |-> Num(0), network_recv_speed |-> Num(0)]

\* lines 190-224: the packet, from the locals of the call
cm_packet(e, d, n, cpu_temp, gpu) ==
    LET disk_usage == Get(e.psutil.disk_usage)
        uptime_seconds == e.time - e.psutil.boot_time
    IN  [timestamp |-> e.time,
         cpu |-> [usage |-> Round(Num(e.psutil.cpu_percent), 1),
                  frequency |-> IF IsNone(e.psutil.cpu_freq) THEN Num(0)
                                ELSE Round(Num(Get(e.psutil.cpu_freq)), 0),
                  cores |-> e.psutil.cpu_count,
                  temperature |-> Round(cpu_temp, 1)],
         memory |-> [usage_percent |-> Round(Num(e.psutil.memory.percent), 1),
                     used_gb |-> Round(Rat(e.psutil.memory.used, 1024 * MiB), 1),
                     total_gb |-> Round(Rat(e.psutil.memory.total, 1024 * MiB), 1)],
         disk |-> [read_speed |-> Round(d.disk_read_speed, 1),
                   write_speed |-> Round(d.disk_write_speed, 1),
                   usage_percent |->
                       Round(Mul(Rat(disk_usage.used, disk_usage.total), Num(100)), 1)],
         network |-> [upload_speed |-> Round(n.network_sent_speed, 1),
                      download_speed |-> Round(n.network_recv_speed, 1)],
         gpu |-> [usage |-> Round(gpu.gpu_usage, 1),
                  memory_percent |-> Round(gpu.gpu_memory_percent, 1),
                  temperature |-> Round(gpu.gpu_temp, 1),
                  name |-> Truncate(gpu.gpu_name, 20)],
         system |-> [uptime_hours |-> uptime_seconds \div 3600,
                     uptime_minutes |-> (uptime_seconds % 3600) \div 60,
                     platform |-> "Windows"]]

\* lines 160-226, from the disk block's result d; psutil.disk_usage raising leaves
\* the method with the disk baseline already replaced
cm_after_disk(d, e, time_diff) ==
    IF um_disk_usage_raises(e)
    THEN [s |-> d.s, exc |-> TRUE, cpu_temp |-> NoneVal, packet |-> NoneVal]
    ELSE LET n == cm_net(d.s, e, time_diff)
             cpu_temp == get_cpu_temperature(e, Num(e.psutil.cpu_percent))
         IN  [s |-> [n.s EXCEPT !.prev_time = e.time],
              exc |-> FALSE,
              cpu_temp |-> Some(cpu_temp),
              packet |-> Some(cm_packet(e, d, n, cpu_temp, get_gpu_metrics(n.s, e).r))]

\* lines 131-226: the object as the call leaves it, whether the call raised, the
\* local cpu_temp of line 177 and the packet returned
collect_metrics(self, e) ==
    cm_after_disk(cm_disk(self, e, e.time - self.prev_time), e, e.time - self.prev_time)


(***************************************************************************)
(* The sampling driver: successive update_metrics calls on one object      *)
(* (test_metrics.py lines 21-29 and 63-66, data_collection_loop)           *)
(***************************************************************************)
vars == <<WMI_AVAILABLE, GPU_AVAILABLE, NVML_AVAILABLE, AUDIO_AVAILABLE,
          metrics, passes, completed, raised, env, penv,
          cenv, client, gpu_call, sampler, gui, snapshots, telemetry, running,
          runner>>

\* the fields update_gui shows (lines 909-948)
DisplayedFields ==
    {"cpu_percent", "cpu_freq", "memory_percent", "memory_used", "memory_available",
     "memory_total", "disk_read_speed", "disk_write_speed", "disk_usage_percent",
     "network_sent_speed", "network_recv_speed", "network_total_sent",
     "network_total_recv", "cpu_temp", "system_uptime", "gpu_usage",
     "gpu_memory_percent", "gpu_temp", "gpu_name", "audio_sample_rate",
     "audio_bit_depth", "audio_channels", "audio_buffer_size", "audio_device_name"}

\* the displayed fields of the object s
View(s) == [f \in DisplayedFields |-> s[f]]

\* neither thread is inside its method
\* run has not been called
RunnerIdle ==
    [pc |-> "idle", connected |-> NoneVal, sent |-> NoneVal, attempted |-> FALSE,
     closed |-> FALSE, failures |-> 0]

ThreadsIdle ==
    /\ sampler = [pc |-> "idle", e |-> NoneVal]
    /\ gui = [pc |-> "idle", view |-> NoneVal, reads |-> 0, after |-> 0]

\* one update_metrics call under environment e
Sample(e) ==
    /\ LET r == update_metrics(metrics, e, passes + 1)
       IN  /\ metrics' = r.s
           /\ raised' = r.exc
           /\ completed' = IF r.exc THEN completed ELSE Append(completed, passes + 1)
           /\ snapshots' = IF r.exc THEN snapshots ELSE snapshots \cup {View(r.s)}
    /\ passes' = passes + 1
    /\ env' = Some(e)
    /\ penv' = env
    /\ UNCHANGED <<flags, runner, telemetry, running, cenv, client, gpu_call, sampler, gui>>

\* one get_gpu_metrics call on the client under environment e
Resolve(e) ==
    /\ gpu_call' = Some([e |-> e, result |-> get_gpu_metrics(client, e)])
    /\ UNCHANGED <<flags, runner, telemetry, running, metrics, passes, completed, raised, env, penv,
                   cenv, client, sampler, gui, snapshots>>

\* one collect_metrics call on the client under environment e
Collect(e) ==
    /\ LET r == collect_metrics(client, e)
       IN  /\ client' = r.s
           /\ telemetry' = Some([e |-> e, exc |-> r.exc, cpu_temp |-> r.cpu_temp,
                                 packet |-> r.packet])
    /\ UNCHANGED <<flags, runner, running, metrics, passes, completed, raised, env, penv,
                   cenv, gpu_call, sampler, gui, snapshots>>

\* construction under the import flags f and the construction environment c
Construct(f, c) ==
    /\ WMI_AVAILABLE = f.wmi
    /\ GPU_AVAILABLE = f.gpu
    /\ NVML_AVAILABLE = f.nvml
    /\ AUDIO_AVAILABLE = f.audio
    /\ metrics = SystemMetrics_init(c)
    /\ passes = 0
    /\ completed = <<>>
    /\ raised = FALSE
    /\ env = NoneVal
    /\ penv = NoneVal
    /\ cenv = c
    /\ client = TelemetryClient_init(c)
    /\ gpu_call = NoneVal
    /\ ThreadsIdle
    /\ snapshots = {View(SystemMetrics_init(c))}
    /\ telemetry = NoneVal
    /\ running = TRUE
    /\ runner = RunnerIdle

\* ---- environments ------------------------------------------------------------
MaxTime == 2
MaxPasses == 2

\* clock readings, in seconds; the wall clock may stand still or step back
Times == 0..MaxTime

NoLibraries == [wmi |-> FALSE, gpu |-> FALSE, nvml |-> FALSE, audio |-> FALSE]
AllLibraries == [wmi |-> TRUE, gpu |-> TRUE, nvml |-> TRUE, audio |-> TRUE]

NvmlDown == [handle_ok |-> FALSE, util |-> NoneVal, mem |-> NoneVal, temp |-> NoneVal]
NvmlInitDown == [init_ok |-> FALSE, count |-> NoneVal, names |-> <<>>]
AudioDown == [speakers |-> "raise", mic |-> FALSE, sessions |-> NoneVal]

\* a construction at time t on a machine where every optional backend fails
BareConstruction(t) ==
    [time |-> t, cpu_count |-> 2, wmi_connect |-> FALSE, nvml |-> NvmlInitDown,
     gputil |-> NoneVal, wmi_gpu |-> NoneVal, audio |-> AudioDown]

PsutilTypical ==
    [cpu_percent |-> 50, cpu_percent_again |-> 50, cpu_count |-> 2,
     cpu_per_core |-> <<40, 60>>, cpu_freq |-> Some(3000),
     memory |-> [percent |-> 40, used |-> 4, total |-> 10, available |-> 6],
     disk_usage |-> Some([used |-> 1, total |-> 4]), boot_time |-> 0]

\* cumulative counters, in millions of bytes: each stream can grow, stand and fall
DiskSamples ==
    {NoneVal} \cup
    {Some([read_bytes |-> rw[1], write_bytes |-> rw[2]]) :
        rw \in {<<1, 6>>, <<6, 1>>, <<6, 6>>}}

NetSamples ==
    {NoneVal} \cup
    {Some([bytes_sent |-> sr[1], bytes_recv |-> sr[2]]) : sr \in {<<1, 6>>, <<6, 1>>}}

\* an environment with the given clock and counters and no optional backend
CounterEnv(t, d, n) ==
    [time |-> t, psutil |-> PsutilTypical, disk_io |-> d, net_io |-> n,
     probe |-> NoneVal, zone |-> NoneVal, nvml |-> NvmlDown,
     gputil |-> NoneVal, wmi_gpu |-> NoneVal, audio |-> AudioDown]

\* ---- Spec: counter readings fed to successive sampling passes ---------------
Init == \E t \in Times, f \in {NoLibraries, AllLibraries} : Construct(f, BareConstruction(t))

SamplePass ==
    \E t \in Times, d \in DiskSamples, n \in NetSamples :
        /\ passes < MaxPasses
        /\ Sample(CounterEnv(t, d, n))

Next == SamplePass

Spec == Init /\ [][Next]_vars

\* the four throughput fields of the object
Speeds ==
    <<metrics.disk_read_speed, metrics.disk_write_speed,
      metrics.network_sent_speed, metrics.network_recv_speed>>

\* C1: every computed throughput (disk read, disk write, network sent, network
\* received) is >= 0 after every sampling pass, also when a counter decreased
\* between two passes.
C1_RatesNonNegative == \A i \in 1..4 : ~Less(Speeds[i], Num(0))

\* C2: after the first sampling pass every throughput is 0, whatever the
\* cumulative counters hold.
C2_FirstPassRateZero == passes = 1 => \A i \in 1..4 : Speeds[i] = Num(0)

\* the four counters an environment carries; both readings must be present
Counters(e) ==
    <<Get(e.disk_io).read_bytes, Get(e.disk_io).write_bytes,
      Get(e.net_io).bytes_sent, Get(e.net_io).bytes_recv>>

HasCounters(e) == ~IsNone(e.disk_io) /\ ~IsNone(e.net_io)

\* C3: when both the last pass and the pass before it read the counters, time
\* advanced between them and a counter did not decrease, its throughput is
\* (current - previous) / (now - previous timestamp).
C3_RateIsDeltaOverElapsed ==
    (passes >= 2 /\ HasCounters(Get(env)) /\ HasCounters(Get(penv))
        /\ Get(env).time > Get(penv).time)
    => \A i \in 1..4 :
           Counters(Get(env))[i] >= Counters(Get(penv))[i]
           => Speeds[i] = Rat(Counters(Get(env))[i] - Counters(Get(penv))[i],
                              Get(env).time - Get(penv).time)

\* the timestamp the pass before the last left (line 293), the time of
\* construction before the first pass
PreviousTimestamp == IF passes = 1 THEN cenv.time ELSE Get(penv).time

\* the counter baseline of the object
Baseline ==
    <<metrics.prev_disk_read, metrics.prev_disk_write,
      metrics.prev_net_sent, metrics.prev_net_recv>>

\* C17: after a pass that found now <= previous timestamp, the rate of every
\* counter stream is 0 and the stored baseline holds the counter values of that
\* pass.
C17_NoElapsedTimeGivesZero ==
    (passes >= 1 /\ ~raised /\ HasCounters(Get(env))
        /\ Get(env).time <= PreviousTimestamp)
    => /\ \A i \in 1..4 : Speeds[i] = Num(0)
       /\ Baseline = Counters(Get(env))

\* the counter baseline of the client object
ClientBaseline ==
    <<client.prev_disk_read, client.prev_disk_write,
      client.prev_net_sent, client.prev_net_recv>>

\* a pass of the dashboard, a collect_metrics call of the client, replaces the
\* counter baseline and the time baseline together, by the readings of that pass,
\* or leaves both as they were
BaselineStep ==
    /\ passes' = passes + 1
       => \/ /\ HasCounters(Get(env'))
             /\ Baseline' = Counters(Get(env'))
             /\ metrics'.prev_time = Get(env').time
          \/ /\ Baseline' = Baseline
             /\ metrics'.prev_time = metrics.prev_time
    /\ (telemetry' # telemetry \/ client' # client)
       => \/ /\ HasCounters(Get(telemetry').e)
             /\ ClientBaseline' = Counters(Get(telemetry').e)
             /\ client'.prev_time = Get(telemetry').e.time
          \/ /\ ClientBaseline' = ClientBaseline
             /\ client'.prev_time = client.prev_time

\* C28: the stored counter baseline (prev_disk_read, prev_disk_write,
\* prev_net_sent, prev_net_recv) and the stored time baseline (prev_time) are
\* always readings of the same pass: a pass that does not replace the counters
\* does not replace prev_time either.
C28_BaselineOfOnePass == [][BaselineStep]_vars

\* ---- SpecHistory: enough passes to fill the history deques -------------------
MaxHistoryPasses == 62
MaxRaises == 1

\* psutil.disk_usage('/') raises
PsutilDiskUsageFails == [PsutilTypical EXCEPT !.disk_usage = NoneVal]

\* the clock advances one second per call; the counters stand
HistoryEnv(ps) ==
    [CounterEnv(passes + 1, Some([read_bytes |-> 6, write_bytes |-> 6]), NoneVal)
        EXCEPT !.psutil = ps]

InitHistory == \E f \in {NoLibraries, AllLibraries} : Construct(f, BareConstruction(0))

HistoryPass ==
    \E ps \in {PsutilTypical, PsutilDiskUsageFails} :
        /\ passes < MaxHistoryPasses
        /\ IsNone(ps.disk_usage) => passes - Len(completed) < MaxRaises
        /\ Sample(HistoryEnv(ps))

NextHistory == HistoryPass

SpecHistory == InitHistory /\ [][NextHistory]_vars

\* the series of the object, by attribute name
History(name) == metrics[name]

HistoryIsLastCompleted ==
    \A name \in HistoryNames :
        LET h == History(name)
            n == Len(completed)
        IN  /\ Len(h) <= max_history
            /\ n >= max_history => Len(h) = max_history
            /\ n < max_history => Len(h) = n
            /\ \A i \in 1..Len(h) : h[i].tick = completed[n - Len(h) + i]

\* a step leaves a series alone, appends one entry to it, or drops its oldest
\* entry and appends one: no retained entry changes
HistoryStep ==
    \A name \in HistoryNames :
        LET h == History(name)
            h2 == History(name)'
        IN  \/ h2 = h
            \/ Len(h) < max_history /\ Len(h2) = Len(h) + 1 /\ SubSeq(h2, 1, Len(h)) = h
            \/ Len(h) = max_history /\ Len(h2) = max_history
                 /\ SubSeq(h2, 1, max_history - 1) = Tail(h)

MaxConcPasses == 2
MaxGuiReads == 1

SamplerStages ==
    <<"cpu_memory", "disk", "disk_usage", "net", "temperature", "gpu", "audio",
      "uptime", "history", "prev_time">>

\* the block of update_metrics at position pc, applied to the shared object
\* during call number k
StageApply(pc, self, e, k) ==
    CASE pc = "cpu_memory" -> um_cpu_memory(self, e)
      [] pc = "disk" -> um_disk(self, e, e.time - self.prev_time)
      [] pc = "disk_usage" -> um_disk_usage(self, e)
      [] pc = "net" -> um_net(self, e, e.time - self.prev_time)
      [] pc = "temperature" -> update_temperature(self, e)
      [] pc = "gpu" -> update_gpu_metrics(self, e).s
      [] pc = "audio" -> update_audio_metrics(self, e.audio)
      [] pc = "uptime" -> um_uptime(self, e, e.time)
      [] pc = "history" -> um_history(self, e, k)
      [] pc = "prev_time" -> um_prev_time(self, e.time)

NextStage(pc) ==
    SamplerStages[1 + CHOOSE i \in 1..Len(SamplerStages) : SamplerStages[i] = pc]

GuiPanels == <<"cpu", "memory", "disk", "network", "temperature", "gpu", "audio">>

\* the attributes update_gui reads for a panel (lines 909-948)
PanelFields(panel) ==
    CASE panel = "cpu" -> {"cpu_percent", "cpu_freq"}
      [] panel = "memory" ->
             {"memory_percent", "memory_used", "memory_available", "memory_total"}
      [] panel = "disk" -> {"disk_read_speed", "disk_write_speed", "disk_usage_percent"}
      [] panel = "network" ->
             {"network_sent_speed", "network_recv_speed", "network_total_sent",
              "network_total_recv"}
      [] panel = "temperature" -> {"cpu_temp", "system_uptime"}
      [] panel = "gpu" -> {"gpu_usage", "gpu_memory_percent", "gpu_temp", "gpu_name"}
      [] panel = "audio" ->
             {"audio_sample_rate", "audio_bit_depth", "audio_channels",
              "audio_buffer_size", "audio_device_name"}

NextPanel(panel) ==
    LET i == CHOOSE j \in 1..Len(GuiPanels) : GuiPanels[j] = panel
    IN  IF i = Len(GuiPanels) THEN "done" ELSE GuiPanels[i + 1]

\* CPU loads psutil reports
ConcLoads == {10, 50}

\* a pass one second after the last, with the given CPU load and disk_usage result
ConcEnv(cpu, du) ==
    [CounterEnv(passes + 1, Some([read_bytes |-> 6, write_bytes |-> 6]), NoneVal)
        EXCEPT !.psutil.cpu_percent = cpu, !.psutil.disk_usage = du]

InitConc == \E f \in {NoLibraries, AllLibraries} : Construct(f, BareConstruction(0))

\* lines 892-894 and 220-221: the loop calls update_metrics, which reads the clock
SamplerBegin ==
    \E cpu \in ConcLoads, du \in {NoneVal, PsutilTypical.disk_usage} :
        /\ sampler.pc = "idle"
        /\ passes < MaxConcPasses
        /\ sampler' = [pc |-> SamplerStages[1], e |-> Some(ConcEnv(cpu, du))]
        /\ UNCHANGED <<flags, runner, telemetry, running, metrics, passes, completed, raised, env, penv,
                       cenv, client, gpu_call, gui, snapshots>>

\* psutil.disk_usage raises: the exception leaves update_metrics (lines 896-898)
SamplerRaise ==
    /\ sampler.pc = "disk_usage"
    /\ um_disk_usage_raises(Get(sampler.e))
    /\ sampler' = [pc |-> "idle", e |-> NoneVal]
    /\ passes' = passes + 1
    /\ raised' = TRUE
    /\ env' = sampler.e
    /\ penv' = env
    /\ UNCHANGED <<flags, runner, telemetry, running, metrics, completed, cenv, client, gpu_call, gui, snapshots>>

\* the next block of update_metrics
SamplerStep ==
    /\ sampler.pc \notin {"idle", "prev_time"}
    /\ ~(sampler.pc = "disk_usage" /\ um_disk_usage_raises(Get(sampler.e)))
    /\ metrics' = StageApply(sampler.pc, metrics, Get(sampler.e), passes + 1)
    /\ sampler' = [sampler EXCEPT !.pc = NextStage(sampler.pc)]
    /\ UNCHANGED <<flags, runner, telemetry, running, passes, completed, raised, env, penv,
                   cenv, client, gpu_call, gui, snapshots>>

\* line 293: the last statement, after which update_metrics returns
SamplerEnd ==
    /\ sampler.pc = "prev_time"
    /\ metrics' = StageApply(sampler.pc, metrics, Get(sampler.e), passes + 1)
    /\ sampler' = [pc |-> "idle", e |-> NoneVal]
    /\ passes' = passes + 1
    /\ completed' = Append(completed, passes + 1)
    /\ raised' = FALSE
    /\ snapshots' = snapshots \cup {View(metrics')}
    /\ env' = sampler.e
    /\ penv' = env
    /\ UNCHANGED <<flags, runner, telemetry, running, cenv, client, gpu_call, gui>>

\* line 900: Tk calls update_gui (first after 1000 ms, then every 500 ms)
GuiBegin ==
    /\ gui.pc \in {"idle", "done"}
    /\ gui.reads < MaxGuiReads
    /\ gui' = [pc |-> GuiPanels[1], view |-> <<>>, reads |-> gui.reads + 1,
               after |-> Len(completed)]
    /\ UNCHANGED <<flags, runner, telemetry, running, metrics, passes, completed, raised, env, penv,
                   cenv, client, gpu_call, sampler, snapshots>>

\* lines 909-948: update_gui reads the attributes of the next panel
GuiRead ==
    /\ gui.pc \notin {"idle", "done"}
    /\ gui' = [gui EXCEPT
                  !.pc = NextPanel(gui.pc),
                  !.view = [f \in (DOMAIN gui.view) \cup PanelFields(gui.pc) |->
                               IF f \in PanelFields(gui.pc) THEN metrics[f]
                               ELSE gui.view[f]]]
    /\ UNCHANGED <<flags, runner, telemetry, running, metrics, passes, completed, raised, env, penv,
                   cenv, client, gpu_call, sampler, snapshots>>

NextConc ==
    \/ SamplerBegin \/ SamplerRaise \/ SamplerStep \/ SamplerEnd
    \/ GuiBegin \/ GuiRead

SpecConc == InitConc /\ [][NextConc]_vars

\* C5: what one update_gui run read, started after at least one sampling pass
\* finished, is the set of displayed fields as some finished pass left them: never
\* some fields of tick k and others of tick k+1.
C5_SnapshotAtomic ==
    (gui.pc = "done" /\ gui.after >= 1) => gui.view \in snapshots

\* ---- SpecGpu: the GPU backends in every state of health ----------------------
\* The dashboard and the client are separate programs: a behaviour constructs
\* both objects on one machine and then runs one of them.
MaxGpuPasses == 1

S_GTX_1050 == <<"G", "T", "X", " ", "1", "0", "5", "0">>
S_Quadro_P4000 == <<"Q", "u", "a", "d", "r", "o", " ", "P", "4", "0", "0", "0">>
S_Radeon_RX_580 ==
    <<"R", "a", "d", "e", "o", "n", " ", "R", "X", " ", "5", "8", "0">>
S_Microsoft_Basic_Display_Adapter ==
    <<"M", "i", "c", "r", "o", "s", "o", "f", "t", " ", "B", "a", "s", "i", "c", " ",
      "D", "i", "s", "p", "l", "a", "y", " ", "A", "d", "a", "p", "t", "e", "r">>

\* NVML readings during a pass
NvmlOk ==
    [handle_ok |-> TRUE, util |-> Some(30),
     mem |-> Some([used |-> 256 * MiB, total |-> 1024 * MiB]), temp |-> Some(60)]
NvmlNoTemp == [NvmlOk EXCEPT !.temp = NoneVal]
NvmlMemRaises == [NvmlOk EXCEPT !.mem = NoneVal]
NvmlSamples == {NvmlDown, NvmlOk, NvmlNoTemp, NvmlMemRaises}

\* GPUtil devices: memory in MB, load a fraction
KeywordGpu2GB ==
    [name |-> S_GTX_1050, memoryTotal |-> 2048, memoryUsed |-> 512,
     load |-> Rat(1, 4), temperature |-> Num(55)]
PlainGpu8GB ==
    [name |-> S_Quadro_P4000, memoryTotal |-> 8192, memoryUsed |-> 4096,
     load |-> Rat(3, 4), temperature |-> Num(70)]
SilentGpu ==
    [name |-> S_GTX_1050, memoryTotal |-> 2048, memoryUsed |-> 512,
     load |-> NoneVal, temperature |-> NoneVal]
Rtx3090Gpu ==
    [name |-> S_RTX_3090, memoryTotal |-> 24576, memoryUsed |-> 1024,
     load |-> Rat(1, 2), temperature |-> Num(65)]
GputilSamples ==
    {NoneVal, Some(<<>>), Some(<<KeywordGpu2GB, PlainGpu8GB>>),
     Some(<<PlainGpu8GB, KeywordGpu2GB>>), Some(<<SilentGpu>>)}

\* WMI video controllers: AdapterRAM in bytes, 0 when missing
BasicAdapter == [Name |-> S_Microsoft_Basic_Display_Adapter, AdapterRAM |-> 0]
RadeonAdapter == [Name |-> S_Radeon_RX_580, AdapterRAM |-> 1024 * MiB]
Rtx3090Adapter == [Name |-> S_RTX_3090, AdapterRAM |-> 0]
WmiSamples == {NoneVal, Some(<<BasicAdapter>>), Some(<<RadeonAdapter, Rtx3090Adapter>>)}

\* a pass in which psutil reports 50% CPU load, and 80% when asked again
GpuEnv(nv, g, w) ==
    [CounterEnv(passes + 1, NoneVal, NoneVal) EXCEPT
        !.nvml = nv, !.gputil = g, !.wmi_gpu = w, !.psutil.cpu_percent_again = 80]

GpuFlags ==
    {[wmi |-> a, gpu |-> b, nvml |-> c, audio |-> FALSE] : a, b, c \in BOOLEAN}

NvmlInitOneDevice == [init_ok |-> TRUE, count |-> Some(1), names |-> <<Some(S_RTX_3090)>>]

\* a machine with no GPU behind GPUtil and WMI, and one whose RTX 3090 both list
GpuConstructions ==
    {[BareConstruction(0) EXCEPT !.nvml = nv, !.gputil = gw[1], !.wmi_gpu = gw[2]] :
        nv \in {NvmlInitDown, NvmlInitOneDevice},
        gw \in {<<NoneVal, NoneVal>>,
                <<Some(<<Rtx3090Gpu>>), Some(<<BasicAdapter, Rtx3090Adapter>>)>>}}

InitGpu == \E f \in GpuFlags, c \in GpuConstructions : Construct(f, c)

\* the dashboard samples
GpuSamplePass ==
    \E nv \in NvmlSamples, g \in GputilSamples, w \in WmiSamples :
        /\ passes < MaxGpuPasses
        /\ IsNone(gpu_call)
        /\ Sample(GpuEnv(nv, g, w))

\* the client resolves its GPU metrics
GpuResolve ==
    \E nv \in NvmlSamples, g \in GputilSamples, w \in WmiSamples :
        /\ passes = 0
        /\ Resolve(GpuEnv(nv, g, w))

NextGpu == GpuSamplePass \/ GpuResolve

SpecGpu == InitGpu /\ [][NextGpu]_vars

\* ---- what the backends report, read off the environment ----------------------
\* names the GPUtil listing and the WMI listing of the construction reported
LowerPriorityNames ==
    (IF GPU_AVAILABLE /\ ~IsNone(cenv.gputil)
     THEN {Get(cenv.gputil)[i].name : i \in 1..Len(Get(cenv.gputil))} ELSE {})
    \cup
    (IF WMI_AVAILABLE /\ ~IsNone(cenv.wmi_gpu)
     THEN {Get(cenv.wmi_gpu)[i].Name : i \in 1..Len(Get(cenv.wmi_gpu))} ELSE {})

\* positions of all_gpus that stand for the device named x
EntriesFor(x) ==
    {j \in 1..Len(client.all_gpus) :
        client.all_gpus[j] = x \/ client.all_gpus[j] = S_NVIDIA_ \o x}

\* C6: when NVML reported a device named X and GPUtil or the WMI listing reported
\* a device of the same name, all_gpus holds exactly one entry for X, the one NVML
\* contributed.
C6_OneEntryPerName ==
    \A i \in 1..Len(client.nvidia_gpus) :
        LET x == client.nvidia_gpus[i].name
        IN  x \in LowerPriorityNames
            => /\ Cardinality(EntriesFor(x)) = 1
               /\ \A j \in EntriesFor(x) : client.all_gpus[j] = S_NVIDIA_ \o x

\* a name carrying one of the discrete-GPU keywords
MatchesKeyword(name) == IsNvidiaName(name) \/ IsAmdName(name)

\* two devices: a keyword device with 2 GB and a device without keyword with 8 GB
IsC7Pair(gpus) ==
    /\ Len(gpus) = 2
    /\ \E k \in 1..2 :
           /\ MatchesKeyword(gpus[k].name) /\ gpus[k].memoryTotal = 2048
           /\ ~MatchesKeyword(gpus[3 - k].name) /\ gpus[3 - k].memoryTotal = 8192

KeywordNameOf(gpus) ==
    gpus[CHOOSE k \in 1..2 : MatchesKeyword(gpus[k].name)].name

\* the NVML branch of the dashboard cannot return under e
DashNvmlOut(e) ==
    \/ ~NVML_AVAILABLE \/ ~metrics.nvml_initialized \/ ~e.nvml.handle_ok
    \/ IsNone(e.nvml.util) \/ IsNone(e.nvml.mem) \/ Get(e.nvml.mem).total = 0

\* the NVML branch of the client cannot return under e
ClientNvmlOut(e) ==
    \/ ~NVML_AVAILABLE \/ client.nvidia_gpus = <<>>
    \/ IsNone(e.nvml.util) \/ IsNone(e.nvml.mem) \/ Get(e.nvml.mem).total = 0

\* GPUtil reports a pair as above and no higher-priority backend answers
DashPairCase ==
    /\ passes >= 1 /\ ~raised /\ GPU_AVAILABLE /\ DashNvmlOut(Get(env))
    /\ ~IsNone(Get(env).gputil) /\ IsC7Pair(Get(Get(env).gputil))

ClientPairCase ==
    /\ ~IsNone(gpu_call) /\ GPU_AVAILABLE /\ ClientNvmlOut(Get(gpu_call).e)
    /\ ~IsNone(Get(gpu_call).e.gputil) /\ IsC7Pair(Get(Get(gpu_call).e.gputil))

\* C7: of a keyword device with 2 GB and a device without keyword with 8 GB,
\* reported by GPUtil in either order, the keyword device is the one selected, by
\* the client and by the dashboard.
C7_DiscreteOutranksMemory ==
    /\ ClientPairCase
       => Get(gpu_call).result.r.gpu_name = KeywordNameOf(Get(Get(gpu_call).e.gputil))
    /\ DashPairCase
       => metrics.gpu_name = KeywordNameOf(Get(Get(env).gputil))

\* no GPUtil device and no physical WMI adapter under e
LowerBackendsOut(e) ==
    /\ ~GPU_AVAILABLE \/ IsNone(e.gputil) \/ Get(e.gputil) = <<>>
    /\ \/ ~WMI_AVAILABLE \/ IsNone(e.wmi_gpu)
       \/ SelectSeq(Get(e.wmi_gpu), IsPhysicalAdapter) = <<>>

\* min(0.4 * cpuLoadPercent, 100)
NoGpuEstimate(cpu_percent) == Min(Mul(Num(cpu_percent), Rat(2, 5)), Num(100))

\* C8: when every GPU backend is unavailable, fails or lists no device, the GPU
\* utilization of the tick is min(0.4 * CPU load of the tick, 100) and the name is
\* no "no GPU" placeholder, in the dashboard and in the client.
C8_NoGpuEstimate ==
    /\ (passes >= 1 /\ ~raised /\ DashNvmlOut(Get(env)) /\ LowerBackendsOut(Get(env)))
       => /\ metrics.gpu_usage = NoGpuEstimate(Get(env).psutil.cpu_percent)
          /\ metrics.gpu_name \notin {S_No_GPU_detected, S_No_GPU, S_GPU_Error}
    /\ (~IsNone(gpu_call) /\ ClientNvmlOut(Get(gpu_call).e)
           /\ LowerBackendsOut(Get(gpu_call).e))
       => /\ Get(gpu_call).result.r.gpu_usage
                 = NoGpuEstimate(Get(gpu_call).e.psutil.cpu_percent)
          /\ Get(gpu_call).result.r.gpu_name
                 \notin {S_No_GPU_detected, S_No_GPU, S_GPU_Error}

\* ---- SpecBackends: temperature, GPU and audio backends present, absent, failing
MaxBackendPasses == 2

AllFlags ==
    {[wmi |-> a, gpu |-> b, nvml |-> c, audio |-> d] : a, b, c, d \in BOOLEAN}

AudioUp == [speakers |-> "present", mic |-> TRUE, sessions |-> Some(2)]
AudioNoDevice == [speakers |-> "none", mic |-> FALSE, sessions |-> Some(0)]
AudioSessionsFail == [speakers |-> "present", mic |-> FALSE, sessions |-> NoneVal]
AudioSamples == {AudioDown, AudioNoDevice, AudioSessionsFail, AudioUp}

\* a construction in which every backend answers
FullConstruction ==
    [time |-> 0, cpu_count |-> 2, wmi_connect |-> TRUE, nvml |-> NvmlInitOneDevice,
     gputil |-> Some(<<Rtx3090Gpu>>), wmi_gpu |-> Some(<<BasicAdapter, Rtx3090Adapter>>),
     audio |-> AudioUp]

\* the probe query and the zone query, readings in tenths of Kelvin (0: no reading)
TempFail == <<NoneVal, NoneVal>>                      \* the probe query raises
TempZoneFail == <<Some(<<>>), NoneVal>>               \* no probe, the zone query raises
TempZone == <<Some(<<Num(0), Num(50000)>>), Some(<<Num(3231)>>)>>    \* only the zone is plausible
TempOk == <<Some(<<Num(3031)>>), Some(<<Num(3231)>>)>>          \* the probe answers

\* the NVML readings, the GPUtil listing and the WMI listing of a pass
GpuFail == <<NvmlDown, NoneVal, NoneVal>>
GpuEmpty == <<NvmlDown, Some(<<>>), Some(<<BasicAdapter>>)>>
GpuWmiOnly == <<NvmlMemRaises, Some(<<SilentGpu>>), Some(<<RadeonAdapter, Rtx3090Adapter>>)>>
GpuOk ==
    <<NvmlOk, Some(<<KeywordGpu2GB, PlainGpu8GB>>), Some(<<RadeonAdapter, Rtx3090Adapter>>)>>

\* every combination of failing and answering temperature, GPU and audio
\* backends, and the partial failures of each
BackendSamples ==
    {<<tp, gp, au>> : tp \in {TempFail, TempOk}, gp \in {GpuFail, GpuOk},
                      au \in {AudioDown, AudioUp}}
    \cup {<<TempZone, GpuWmiOnly, AudioNoDevice>>,
          <<TempZoneFail, GpuEmpty, AudioSessionsFail>>,
          <<TempZone, GpuEmpty, AudioUp>>,
          <<TempOk, GpuWmiOnly, AudioSessionsFail>>}

BackendEnv(tp, gp, au) ==
    [CounterEnv(passes + 1, NoneVal, NoneVal) EXCEPT
        !.probe = tp[1], !.zone = tp[2], !.nvml = gp[1], !.gputil = gp[2],
        !.wmi_gpu = gp[3], !.audio = au]

InitBackends ==
    \E f \in AllFlags, c \in {BareConstruction(0), FullConstruction} : Construct(f, c)

BackendPass ==
    \E b \in BackendSamples :
        /\ passes < MaxBackendPasses
        /\ Sample(BackendEnv(b[1], b[2], b[3]))

NextBackends == BackendPass

SpecBackends == InitBackends /\ [][NextBackends]_vars

\* the displayed fields by the kind of value the code stores in them
NumberFields ==
    {"cpu_percent", "cpu_freq", "memory_percent", "disk_read_speed",
     "disk_write_speed", "disk_usage_percent", "network_sent_speed",
     "network_recv_speed", "cpu_temp", "gpu_usage", "gpu_memory_percent", "gpu_temp"}

CountFields ==
    {"memory_used", "memory_available", "memory_total", "network_total_sent",
     "network_total_recv", "system_uptime", "gpu_memory_used", "gpu_memory_total",
     "audio_sample_rate", "audio_bit_depth", "audio_channels", "audio_buffer_size",
     "audio_device_count"}

TextFields == {"audio_device_name", "audio_format"}

\* C9: whatever the temperature, GPU and audio backends do (library missing,
\* device absent, call raising), every sampling pass returns normally and leaves
\* every snapshot field set: none is None.
C9_PassNeverFails ==
    /\ ~raised
    /\ completed = [i \in 1..passes |-> i]
    /\ \A f \in NumberFields : ~IsNone(metrics[f])
    /\ ~IsNone(metrics.gpu_name)
    /\ \A f \in CountFields : metrics[f] \in Int
    /\ \A f \in TextFields : metrics[f] \in STRING

\* two passes on a machine with every library installed, the last one with the
\* temperature queries, every GPU backend and the audio backend raising
C9_Witness ==
    /\ passes = 2
    /\ WMI_AVAILABLE /\ GPU_AVAILABLE /\ NVML_AVAILABLE /\ AUDIO_AVAILABLE
    /\ metrics.wmi_conn /\ metrics.nvml_initialized
    /\ IsNone(Get(env).probe) /\ IsNone(Get(env).gputil) /\ IsNone(Get(env).wmi_gpu)
    /\ IsNone(Get(env).nvml.util) /\ Get(env).audio.speakers = "raise"
    /\ ~raised
    /\ metrics.cpu_temp = EstimateCpuTemp(metrics.cpu_percent)
    /\ metrics.gpu_name = S_No_GPU_detected

\* ---- C10: GPU metric resolution under raising backends ----------------------
\* the result of a resolution: usage, memory percent, temperature, name
GpuResult(s) ==
    [gpu_usage |-> s.gpu_usage, gpu_memory_percent |-> s.gpu_memory_percent,
     gpu_temp |-> s.gpu_temp, gpu_name |-> s.gpu_name]

Complete(r) ==
    /\ ~IsNone(r.gpu_usage) /\ ~IsNone(r.gpu_memory_percent)
    /\ ~IsNone(r.gpu_temp) /\ ~IsNone(r.gpu_name)

\* a call of the NVML probe raises under e: the handle, utilization or memory
\* call, and, when temp_counts, also the temperature call
NvmlRaises(e, temp_counts) ==
    \/ IsNone(e.nvml.util) \/ IsNone(e.nvml.mem)
    \/ (temp_counts /\ IsNone(e.nvml.temp))

\* the GPUtil probe raises in the dashboard: the listing raises, or the load of
\* the selected device is None
DashGputilRaises(e) ==
    IF IsNone(e.gputil) THEN TRUE
    ELSE Get(e.gputil) # <<>> /\ IsNone(MaxMemoryGpu(Get(e.gputil)).load)

\* e with every raising GPUtil and WMI listing replaced by an empty listing
Silenced(e, gputil_raises) ==
    [e EXCEPT !.gputil = IF gputil_raises THEN Some(<<>>) ELSE @,
              !.wmi_gpu = IF IsNone(@) THEN Some(<<>>) ELSE @]

\* the names a backend can answer with under e
GputilNames(e) == {Get(e.gputil)[i].name : i \in 1..Len(Get(e.gputil))}
WmiNames(e) == {Truncate(Get(e.wmi_gpu)[i].Name, 20) : i \in 1..Len(Get(e.wmi_gpu))}

\* a dashboard pass under e from the object s with call number k: it returns
\* normally with a complete result, the result a pass gives when each raising
\* backend reports no device instead, taken from the first backend in priority
\* order that has one
DashResolves(s, e, k, temp_counts) ==
    LET got == update_metrics(s, e, k)
        nvml_out == ~NVML_AVAILABLE \/ ~s.nvml_initialized \/ ~e.nvml.handle_ok
                    \/ NvmlRaises(e, temp_counts)
        gputil_out == ~GPU_AVAILABLE \/ DashGputilRaises(e) \/ Get(e.gputil) = <<>>
        quiet == update_metrics(
                     [s EXCEPT !.nvml_initialized = IF nvml_out THEN FALSE ELSE @],
                     Silenced(e, DashGputilRaises(e)), k)
    IN  /\ ~got.exc
        /\ Complete(GpuResult(got.s))
        /\ GpuResult(got.s) = GpuResult(quiet.s)
        /\ (nvml_out /\ ~gputil_out) => got.s.gpu_name \in GputilNames(e)
        /\ (nvml_out /\ gputil_out /\ ~LowerBackendsOut(Silenced(e, TRUE)))
           => got.s.gpu_name \in WmiNames(e)

\* the same for a get_gpu_metrics call of the client object s
ClientResolves(s, e, temp_counts) ==
    LET got == get_gpu_metrics(s, e)
        nvml_out == ~NVML_AVAILABLE \/ s.nvidia_gpus = <<>> \/ NvmlRaises(e, temp_counts)
        gputil_out == ~GPU_AVAILABLE \/ IsNone(e.gputil) \/ Get(e.gputil) = <<>>
        quiet == get_gpu_metrics(
                     [s EXCEPT !.nvidia_gpus = IF nvml_out THEN <<>> ELSE @],
                     Silenced(e, IsNone(e.gputil)))
    IN  /\ ~got.exc
        /\ Complete(got.r)
        /\ got.r = quiet.r
        /\ (nvml_out /\ ~gputil_out) => got.r.gpu_name \in GputilNames(e)
        /\ (nvml_out /\ gputil_out /\ ~LowerBackendsOut(Silenced(e, TRUE)))
           => got.r.gpu_name \in WmiNames(e)

\* a step of SpecGpu is a pass or a call that resolves as above
ResolutionStep(temp_counts) ==
    /\ passes' = passes + 1
       => /\ metrics' = update_metrics(metrics, Get(env'), passes').s
          /\ ~raised'
          /\ DashResolves(metrics, Get(env'), passes', temp_counts)
    /\ gpu_call' # gpu_call
       => /\ Get(gpu_call').result = get_gpu_metrics(client, Get(gpu_call').e)
          /\ ClientResolves(client, Get(gpu_call').e, temp_counts)

MaxDevicePasses == 1

S_Tesla_V100 == <<"T", "e", "s", "l", "a", " ", "V", "1", "0", "0">>
S_Intel_UHD_630 == <<"I", "n", "t", "e", "l", " ", "U", "H", "D", " ", "6", "3", "0">>

\* GPUtil devices: one reporting a load above 1.0 and more memory used than it has,
\* and two devices without keyword, with 8 GB and 16 GB
OverGpu ==
    [name |-> S_GTX_1050, memoryTotal |-> 2048, memoryUsed |-> 3072,
     load |-> Rat(3, 2), temperature |-> Num(55)]
TeslaGpu16GB ==
    [name |-> S_Tesla_V100, memoryTotal |-> 16384, memoryUsed |-> 4096,
     load |-> Rat(1, 4), temperature |-> Num(60)]
\* a device whose temperature reading is 0, and one without temperature reading
ColdGpu ==
    [name |-> S_GTX_1050, memoryTotal |-> 2048, memoryUsed |-> 512,
     load |-> Rat(1, 4), temperature |-> Num(0)]
NoTempGpu ==
    [name |-> S_GTX_1050, memoryTotal |-> 2048, memoryUsed |-> 1024,
     load |-> Rat(1, 2), temperature |-> NoneVal]
DeviceGputilSamples ==
    {NoneVal, Some(<<OverGpu>>), Some(<<PlainGpu8GB, TeslaGpu16GB>>),
     Some(<<TeslaGpu16GB, PlainGpu8GB>>), Some(<<ColdGpu>>), Some(<<NoTempGpu>>)}

\* WMI video controllers: two NVIDIA adapters, an AMD adapter before an NVIDIA
\* adapter, and two adapters without keyword with 512 MB and 1 GB
GtxAdapter == [Name |-> S_GTX_1050, AdapterRAM |-> 1024 * MiB]
IntelAdapter == [Name |-> S_Intel_UHD_630, AdapterRAM |-> 512 * MiB]
QuadroAdapter == [Name |-> S_Quadro_P4000, AdapterRAM |-> 1024 * MiB]
\* an NVIDIA adapter whose keyword starts after the 20th character of its name
S_ASUS_ROG_Strix_GeForce_RTX_3090 ==
    <<"A", "S", "U", "S", " ", "R", "O", "G", " ", "S", "t", "r", "i", "x", " ",
      "G", "e", "F", "o", "r", "c", "e", " ", "R", "T", "X", " ", "3", "0", "9", "0">>
StrixAdapter == [Name |-> S_ASUS_ROG_Strix_GeForce_RTX_3090, AdapterRAM |-> 0]
DeviceWmiSamples ==
    {NoneVal, Some(<<GtxAdapter, Rtx3090Adapter>>), Some(<<RadeonAdapter, GtxAdapter>>),
     Some(<<IntelAdapter, QuadroAdapter>>), Some(<<QuadroAdapter, IntelAdapter>>),
     Some(<<StrixAdapter>>)}

InitDevices == \E f \in GpuFlags : Construct(f, BareConstruction(0))

\* the dashboard samples
DeviceSamplePass ==
    \E g \in DeviceGputilSamples, w \in DeviceWmiSamples :
        /\ passes < MaxDevicePasses
        /\ IsNone(gpu_call)
        /\ Sample(GpuEnv(NvmlDown, g, w))

\* the client resolves its GPU metrics
DeviceResolve ==
    \E g \in DeviceGputilSamples, w \in DeviceWmiSamples :
        /\ passes = 0
        /\ Resolve(GpuEnv(NvmlDown, g, w))

NextDevices == DeviceSamplePass \/ DeviceResolve

SpecDevices == InitDevices /\ [][NextDevices]_vars

\* 0 <= x <= 100
InPercentRange(x) == ~Less(x, Num(0)) /\ ~Less(Num(100), x)

PercentFields ==
    {"cpu_percent", "memory_percent", "disk_usage_percent", "gpu_usage",
     "gpu_memory_percent"}

\* C11: after every sampling pass each percentage field (CPU, memory, disk, GPU
\* usage, GPU memory percent) lies in [0, 100], whatever the backends report; the
\* same for the GPU usage and GPU memory percent the client resolves.
C11_PercentagesInRange ==
    /\ (passes >= 1 /\ ~raised) => \A f \in PercentFields : InPercentRange(metrics[f])
    /\ ~IsNone(gpu_call)
       => /\ InPercentRange(Get(gpu_call).result.r.gpu_usage)
          /\ InPercentRange(Get(gpu_call).result.r.gpu_memory_percent)

\* ---- C19, C20: which device a listing makes the primary GPU --------------------
\* the name matches a vendor-A keyword (RTX, GTX); only a vendor-B keyword (RX,
\* Radeon)
VendorA(name) == Contains(name, S_RTX) \/ Contains(name, S_GTX)
VendorB(name) == ~VendorA(name) /\ (Contains(name, S_RX) \/ Contains(name, S_Radeon))

\* the physical adapters of a WMI listing, the candidates of the WMI branch
Candidates(w) == SelectSeq(Get(w), IsPhysicalAdapter)

\* positions of the candidates of vendor A, of vendor B
VendorAAt(c) == {i \in 1..Len(c) : VendorA(c[i].Name)}
VendorBAt(c) == {i \in 1..Len(c) : VendorB(c[i].Name)}
Lowest(S) == CHOOSE i \in S : \A j \in S : i <= j

\* the candidate the rule names: the first of vendor A, else the first of vendor B
PreferredAdapter(c) ==
    IF VendorAAt(c) # {} THEN c[Lowest(VendorAAt(c))] ELSE c[Lowest(VendorBAt(c))]

\* the GPUtil branch cannot return under e, in the client and in the dashboard
ClientGputilOut(e) == ~GPU_AVAILABLE \/ IsNone(e.gputil) \/ Get(e.gputil) = <<>>
DashGputilOut(e) ==
    IF GPU_AVAILABLE
    THEN IF DashGputilRaises(e) THEN TRUE ELSE Get(e.gputil) = <<>>
    ELSE TRUE

\* the WMI branch answers under e, with these candidates
WmiAnswers(e) == WMI_AVAILABLE /\ ~IsNone(e.wmi_gpu) /\ Candidates(e.wmi_gpu) # <<>>
ClientWmiCase ==
    /\ ~IsNone(gpu_call) /\ ClientNvmlOut(Get(gpu_call).e)
    /\ ClientGputilOut(Get(gpu_call).e) /\ WmiAnswers(Get(gpu_call).e)
DashWmiCase ==
    /\ passes >= 1 /\ ~raised /\ DashNvmlOut(Get(env))
    /\ DashGputilOut(Get(env)) /\ WmiAnswers(Get(env))

HasVendor(c) == VendorAAt(c) # {} \/ VendorBAt(c) # {}

\* C19: of the adapters the WMI listing offers, an adapter with a vendor-A keyword
\* (RTX, GTX) is selected before one with only a vendor-B keyword (RX, Radeon),
\* and among adapters of the same vendor the first enumerated, in the client and
\* in the dashboard.
C19_VendorThenEnumerationOrder ==
    /\ (ClientWmiCase /\ HasVendor(Candidates(Get(gpu_call).e.wmi_gpu)))
       => Get(gpu_call).result.r.gpu_name
              = Truncate(PreferredAdapter(Candidates(Get(gpu_call).e.wmi_gpu)).Name, 20)
    /\ (DashWmiCase /\ HasVendor(Candidates(Get(env).wmi_gpu)))
       => metrics.gpu_name = PreferredAdapter(Candidates(Get(env).wmi_gpu)).Name


\* no GPUtil device, no candidate adapter carries a discrete-GPU keyword
NoKeywordGputil(gpus) == \A i \in 1..Len(gpus) : ~MatchesKeyword(gpus[i].name)
NoKeywordWmi(c) == \A i \in 1..Len(c) : ~MatchesKeyword(c[i].Name)

\* names of the devices no other device of the listing has more memory than
LargestGputil(gpus) ==
    {gpus[i].name : i \in {k \in 1..Len(gpus) :
                              \A j \in 1..Len(gpus) :
                                  gpus[j].memoryTotal <= gpus[k].memoryTotal}}
LargestWmi(c) ==
    {Truncate(c[i].Name, 20) : i \in {k \in 1..Len(c) :
                              \A j \in 1..Len(c) : c[j].AdapterRAM <= c[k].AdapterRAM}}

ClientGputilCase ==
    /\ ~IsNone(gpu_call) /\ ClientNvmlOut(Get(gpu_call).e)
    /\ ~ClientGputilOut(Get(gpu_call).e)
DashGputilCase ==
    /\ passes >= 1 /\ ~raised /\ DashNvmlOut(Get(env)) /\ ~DashGputilOut(Get(env))

\* C20: when no device of the listing carries a discrete-GPU keyword, the device
\* selected is one with the largest reported memory, whatever the order of the
\* listing: GPUtil devices and WMI adapters in the client, GPUtil devices in the
\* dashboard.
C20_LargestMemoryWithoutKeyword ==
    /\ (ClientGputilCase /\ NoKeywordGputil(Get(Get(gpu_call).e.gputil)))
       => Get(gpu_call).result.r.gpu_name \in LargestGputil(Get(Get(gpu_call).e.gputil))
    /\ (ClientWmiCase /\ NoKeywordWmi(Candidates(Get(gpu_call).e.wmi_gpu)))
       => Get(gpu_call).result.r.gpu_name
              \in LargestWmi(Candidates(Get(gpu_call).e.wmi_gpu))
    /\ (DashGputilCase /\ NoKeywordGputil(Get(Get(env).gputil)))
       => metrics.gpu_name \in LargestGputil(Get(Get(env).gputil))


\* the coefficient of the class the adapter got when it was selected (by its
\* full name): 0.8 NVIDIA, 0.7 AMD, 0.4 integrated
SelectionCoefficient(gpu) ==
    IF IsNvidiaName(gpu.Name) THEN Rat(4, 5)
    ELSE IF IsAmdName(gpu.Name) THEN Rat(7, 10)
    ELSE Rat(2, 5)

\* C21: when the client takes its primary GPU from the WMI adapter listing, the
\* estimated usage is min(coefficient * CPU load, 100) with the coefficient of the
\* class the adapter was selected under: 0.8 for NVIDIA, 0.7 for AMD, 0.4 for an
\* integrated adapter, whatever the length of the adapter's name.
C21_CoefficientOfSelectionClass ==
    ClientWmiCase
    => Get(gpu_call).result.r.gpu_usage
          = Min(Mul(Num(Get(gpu_call).e.psutil.cpu_percent_again),
                    SelectionCoefficient(Get(WmiTarget(Get(Get(gpu_call).e.wmi_gpu))))),
                Num(100))

\* the values GPUtil reports for a device: usage in percent, memory percent
LiveUsage(gpu) == Mul(gpu.load, Num(100))
LiveMemoryPercent(gpu) == Mul(Rat(gpu.memoryUsed, gpu.memoryTotal), Num(100))

\* the temperature of a device: its reading when there is one, else the constant
ReadingOr(gpu, constant) ==
    IF IsNone(gpu.temperature) THEN Num(constant) ELSE gpu.temperature

\* the constant each program puts in place of a missing GPUtil temperature
ClientFallbackTemp == 45
DashFallbackTemp == 0

\* C22: when the primary GPU comes from GPUtil, usage is the device's load in
\* percent, memory percent is its used memory over its total memory, and the
\* temperature is the device's reading when it has one, a reading of 0 included,
\* and otherwise the program's fixed constant (45 in the client, 0 in the
\* dashboard).
C22_GputilLiveValues ==
    /\ ClientGputilCase
       => /\ ~IsNone(GputilTarget(Get(Get(gpu_call).e.gputil)).load)
             => Get(gpu_call).result.r.gpu_usage
                    = LiveUsage(GputilTarget(Get(Get(gpu_call).e.gputil)))
          /\ Get(gpu_call).result.r.gpu_memory_percent
                 = LiveMemoryPercent(GputilTarget(Get(Get(gpu_call).e.gputil)))
          /\ Get(gpu_call).result.r.gpu_temp
                 = ReadingOr(GputilTarget(Get(Get(gpu_call).e.gputil)), ClientFallbackTemp)
    /\ DashGputilCase
       => /\ metrics.gpu_usage = LiveUsage(MaxMemoryGpu(Get(Get(env).gputil)))
          /\ metrics.gpu_memory_percent
                 = LiveMemoryPercent(MaxMemoryGpu(Get(Get(env).gputil)))
          /\ metrics.gpu_temp
                 = ReadingOr(MaxMemoryGpu(Get(Get(env).gputil)), DashFallbackTemp)

\* the client resolved from a GPUtil device that reports a temperature of 0
C22_Witness ==
    /\ ClientGputilCase
    /\ GputilTarget(Get(Get(gpu_call).e.gputil)).temperature = Num(0)
    /\ Get(gpu_call).result.r.gpu_temp = Num(0)

\* the coefficient the client applies to an adapter name cut to 20 characters
TruncatedCoefficient(name) ==
    IF IsNvidiaName(Truncate(name, 20)) THEN Rat(4, 5)
    ELSE IF IsAmdName(Truncate(name, 20)) THEN Rat(7, 10)
    ELSE Rat(2, 5)

\* C25: the CPU load a tick reads at its start is the value of the snapshot's CPU
\* usage, of the CPU temperature estimate and of every GPU usage estimate of the
\* tick, in the dashboard and in the client; no estimate uses a later reading.
C25_OneCpuReadingPerTick ==
    /\ (passes >= 1 /\ ~raised)
       => /\ metrics.cpu_percent = Num(Get(env).psutil.cpu_percent)
          /\ ~metrics.wmi_conn
             => metrics.cpu_temp
                    = Add(Num(35), Mul(Num(30), Rat(Get(env).psutil.cpu_percent, 100)))
    /\ DashWmiCase
       => metrics.gpu_usage
              = Min(Mul(Num(Get(env).psutil.cpu_percent), Rat(7, 10)), Num(100))
    /\ ClientWmiCase
       => Get(gpu_call).result.r.gpu_usage
              = Min(Mul(Num(Get(gpu_call).e.psutil.cpu_percent),
                        TruncatedCoefficient(
                            Get(WmiTarget(Get(Get(gpu_call).e.wmi_gpu))).Name)),
                    Num(100))
    /\ (~IsNone(gpu_call) /\ ClientNvmlOut(Get(gpu_call).e)
           /\ LowerBackendsOut(Get(gpu_call).e))
       => Get(gpu_call).result.r.gpu_usage
              = NoGpuEstimate(Get(gpu_call).e.psutil.cpu_percent)

\* ---- SpecTemp: temperature sources in every state of health --------------------
MaxTempPasses == 2

\* readings in tenths of Kelvin: 2731.5 is exactly 0 C, 4231.5 exactly 150 C,
\* 3231.5 is 50 C, 3031 is 29.95 C, 3231 is 49.95 C, 50000 is far above 150 C
ProbeSamples ==
    {NoneVal, Some(<<Rat(5463, 2)>>), Some(<<Rat(8463, 2)>>),
     Some(<<Num(0), Num(50000), Num(3031)>>), Some(<<Rat(6463, 2)>>)}
ZoneSamples == {NoneVal, Some(<<Rat(8463, 2)>>), Some(<<Num(3231)>>)}

\* the probe query, the zone query and the CPU load of a pass
TempSamples ==
    {<<p, z, 50>> : p \in ProbeSamples, z \in ZoneSamples}
    \cup {<<NoneVal, NoneVal, 0>>, <<NoneVal, NoneVal, 100>>,
          <<Some(<<Rat(6463, 2)>>), NoneVal, 100>>}

\* the video controller listing answers in every pass
TempEnv(t, s) ==
    [CounterEnv(t, NoneVal, NoneVal) EXCEPT
        !.probe = s[1], !.zone = s[2], !.wmi_gpu = Some(<<RadeonAdapter>>),
        !.psutil.cpu_percent = s[3], !.psutil.cpu_percent_again = s[3]]

InitTemp ==
    \E f \in {NoLibraries, AllLibraries}, k \in BOOLEAN :
        Construct(f, [BareConstruction(0) EXCEPT !.wmi_connect = k])

\* the dashboard samples
TempSamplePass ==
    \E s \in TempSamples :
        /\ passes < MaxTempPasses
        /\ IsNone(telemetry)
        /\ Sample(TempEnv(passes + 1, s))

\* the client collects
TempCollect ==
    \E s \in TempSamples :
        /\ passes = 0
        /\ client.prev_time < MaxTempPasses
        /\ Collect(TempEnv(client.prev_time + 1, s))

NextTemp == TempSamplePass \/ TempCollect

SpecTemp == InitTemp /\ [][NextTemp]_vars

\* the readings of a query result q that are set, in Celsius, in query order
Celsius(q) ==
    IF IsNone(q) THEN <<>>
    ELSE LET set == SelectSeq(Get(q), LAMBDA r : r # Num(0))
         IN  [i \in 1..Len(set) |-> Sub(Div(set[i], Num(10)), Rat(27315, 100))]

\* strictly inside (0, 150)
StrictlyInside(c) == Less(Num(0), c) /\ Less(c, Num(150))

\* the readings of q that lie strictly inside (0, 150), in query order
Accepted(q) == SelectSeq(Celsius(q), StrictlyInside)

\* 35 + 30 * (cpuLoadPercent / 100)
LoadEstimate(load) == Add(Num(35), Mul(Num(30), Rat(load, 100)))

\* a dashboard pass has completed; the client has returned a packet
DashSampled == passes >= 1 /\ ~raised
ClientCollected == ~IsNone(telemetry) /\ ~Get(telemetry).exc

\* C12: the CPU temperature a pass stores is a reading strictly inside (0, 150)
\* Celsius or the estimate, never a reading <= 0 or >= 150; when the probe query
\* returns, the first reading strictly inside, in source order, is the one stored
\* and the estimate is stored when there is none.
C12_OnlyPlausibleStored ==
    /\ DashSampled
       => LET e == Get(env)
              from == Accepted(e.probe) \o Accepted(e.zone)
          IN  /\ \/ metrics.cpu_temp = LoadEstimate(e.psutil.cpu_percent)
                 \/ /\ StrictlyInside(metrics.cpu_temp)
                    /\ \E i \in 1..Len(from) : from[i] = metrics.cpu_temp
              /\ (metrics.wmi_conn /\ ~IsNone(e.probe))
                 => metrics.cpu_temp = IF from # <<>> THEN from[1]
                                       ELSE LoadEstimate(e.psutil.cpu_percent)
    /\ ClientCollected
       => LET e == Get(telemetry).e
              from == Accepted(e.probe)
              cpu_temp == Get(Get(telemetry).cpu_temp)
          IN  /\ \/ cpu_temp = LoadEstimate(e.psutil.cpu_percent)
                 \/ /\ StrictlyInside(cpu_temp)
                    /\ \E i \in 1..Len(from) : from[i] = cpu_temp
              /\ (WMI_AVAILABLE /\ ~IsNone(e.probe))
                 => cpu_temp = IF from # <<>> THEN from[1]
                               ELSE LoadEstimate(e.psutil.cpu_percent)

\* a probe reading of exactly 150 C was passed over for the zone's 49.95 C
C12_Witness ==
    /\ DashSampled /\ metrics.wmi_conn
    /\ Get(env).probe = Some(<<Rat(8463, 2)>>)
    /\ Get(env).zone = Some(<<Num(3231)>>)
    /\ metrics.cpu_temp = Rat(999, 20)

\* no source of the dashboard has a reading strictly inside (0, 150) under e
DashNoPlausible(e) ==
    ~metrics.wmi_conn \/ (Accepted(e.probe) = <<>> /\ Accepted(e.zone) = <<>>)

\* the one source of the client has none
ClientNoPlausible(e) == ~WMI_AVAILABLE \/ Accepted(e.probe) = <<>>

\* 35 <= c <= 65
InEstimateRange(c) == ~Less(c, Num(35)) /\ ~Less(Num(65), c)

\* the CPU temperature the pass before the last one stored
PreviousCpuTemp == metrics.temp_history[Len(metrics.temp_history) - 1].v

\* C13: when no source has a plausible reading in a tick, the CPU temperature of
\* the tick is 35 + 30 * (load / 100) for the CPU load of that tick, whatever an
\* earlier tick read from a sensor; it lies in [35, 65] and, over two successive
\* estimated ticks, does not fall when the load does not fall.
C13_EstimateFromLoad ==
    /\ (DashSampled /\ DashNoPlausible(Get(env)))
       => /\ metrics.cpu_temp = LoadEstimate(Get(env).psutil.cpu_percent)
          /\ InEstimateRange(metrics.cpu_temp)
          /\ (passes >= 2 /\ Len(completed) >= 2 /\ DashNoPlausible(Get(penv))
                /\ Get(penv).psutil.cpu_percent <= Get(env).psutil.cpu_percent)
             => ~Less(metrics.cpu_temp, PreviousCpuTemp)
    /\ (ClientCollected /\ ClientNoPlausible(Get(telemetry).e))
       => /\ Get(Get(telemetry).cpu_temp)
                 = LoadEstimate(Get(telemetry).e.psutil.cpu_percent)
          /\ InEstimateRange(Get(Get(telemetry).cpu_temp))
          /\ Get(telemetry).packet # NoneVal
          /\ Get(Get(telemetry).packet).cpu.temperature
                 = Round(LoadEstimate(Get(telemetry).e.psutil.cpu_percent), 1)

\* a tick that read 50 C from the probe at load 100 is followed by a tick without
\* reading at load 0, which stores the estimate 35
C13_Witness ==
    /\ DashSampled /\ passes = 2 /\ metrics.wmi_conn
    /\ Get(penv).probe = Some(<<Rat(6463, 2)>>) /\ Get(penv).psutil.cpu_percent = 100
    /\ PreviousCpuTemp = Num(50)
    /\ DashNoPlausible(Get(env)) /\ Get(env).psutil.cpu_percent = 0
    /\ metrics.cpu_temp = Num(35)

\* the dashboard stores a live reading under e; the client returns one
DashLive(e) == metrics.wmi_conn /\ Accepted(e.probe) # <<>>
ClientLive(e) == WMI_AVAILABLE /\ Accepted(e.probe) # <<>>

\* what a tick puts out for the CPU temperature: the dashboard's attribute, shown
\* by update_gui (line 932), and the field of the client's packet (line 197)
DashTempOutput(s) == s.cpu_temp
ClientTempOutput(t) == Get(t.packet).cpu.temperature

\* of two successive ticks, one with a live CPU temperature and one with an
\* estimated one, the outputs for the field differ
MarkedStep ==
    /\ (passes >= 1 /\ passes' = passes + 1 /\ ~raised /\ ~raised'
          /\ \/ DashLive(Get(env)) /\ DashNoPlausible(Get(env'))
             \/ DashNoPlausible(Get(env)) /\ DashLive(Get(env')))
       => DashTempOutput(metrics') # DashTempOutput(metrics)
    /\ (ClientCollected /\ telemetry' # telemetry /\ ~Get(telemetry').exc
          /\ \/ ClientLive(Get(telemetry).e) /\ ClientNoPlausible(Get(telemetry').e)
             \/ ClientNoPlausible(Get(telemetry).e) /\ ClientLive(Get(telemetry').e))
       => ClientTempOutput(Get(telemetry')) # ClientTempOutput(Get(telemetry))

\* C16: a field whose value a heuristic synthesized carries a marker: no two
\* ticks, one with a live value v and one with an estimated value v, put out the
\* same for the field (here the CPU temperature of the dashboard and of the
\* client's packet).
C16_EstimatesMarked == [][MarkedStep]_vars

\* C18: the CPU temperature is the first plausible reading of the thermal probe;
\* when the probe has none, also because its query raised, it is the first
\* plausible reading of the ACPI thermal zone.
C18_SourcesInPriorityOrder ==
    /\ (DashSampled /\ metrics.wmi_conn)
       => /\ Accepted(Get(env).probe) # <<>>
             => metrics.cpu_temp = Accepted(Get(env).probe)[1]
          /\ (Accepted(Get(env).probe) = <<>> /\ Accepted(Get(env).zone) # <<>>)
             => metrics.cpu_temp = Accepted(Get(env).zone)[1]
    /\ (ClientCollected /\ WMI_AVAILABLE)
       => /\ Accepted(Get(telemetry).e.probe) # <<>>
             => Get(Get(telemetry).cpu_temp) = Accepted(Get(telemetry).e.probe)[1]
          /\ (Accepted(Get(telemetry).e.probe) = <<>>
                /\ Accepted(Get(telemetry).e.zone) # <<>>)
             => Get(Get(telemetry).cpu_temp) = Accepted(Get(telemetry).e.zone)[1]

\* WMI was found unavailable at startup: the library is missing, or the
\* connection of the dashboard, the listing of the client, raised
DashWmiDownAtStartup == ~WMI_AVAILABLE \/ ~SystemMetrics_init(cenv).wmi_conn
ClientWmiDownAtStartup == ~WMI_AVAILABLE \/ IsNone(cenv.wmi_gpu)

\* C24: a backend found unavailable at startup is not probed in any later tick:
\* with WMI down at startup, the CPU temperature of every tick is the estimate and
\* no tick takes its GPU from the WMI adapter listing, whatever WMI would answer.
C24_DownAtStartupNeverProbed ==
    /\ (DashSampled /\ DashWmiDownAtStartup)
       => /\ metrics.cpu_temp = LoadEstimate(Get(env).psutil.cpu_percent)
          /\ (DashNvmlOut(Get(env)) /\ DashGputilOut(Get(env)))
             => metrics.gpu_name = S_No_GPU_detected
    /\ (ClientCollected /\ ClientWmiDownAtStartup)
       => Get(Get(telemetry).cpu_temp)
              = LoadEstimate(Get(telemetry).e.psutil.cpu_percent)

\* ---- SpecGraphs: update_graphs copying the series while update_metrics appends ---
MaxGraphPasses == 2
MaxGraphReads == 1

\* the series in the order update_metrics appends to them (lines 279-291)
AppendOrder ==
    <<"timestamps", "cpu_history", "memory_history", "disk_read_history",
      "disk_write_history", "network_sent_history", "network_recv_history",
      "temp_history", "gpu_usage_history", "gpu_memory_history", "gpu_temp_history",
      "audio_sample_rate_history", "audio_buffer_history">>

\* the series in the order update_graphs copies them (lines 971-1032)
CopyOrder ==
    <<"timestamps", "cpu_history", "memory_history", "disk_read_history",
      "disk_write_history", "network_sent_history", "network_recv_history",
      "gpu_usage_history", "gpu_memory_history", "audio_sample_rate_history",
      "audio_buffer_history">>

\* the element after x in the order, "end" after the last
After(order, x) ==
    LET i == CHOOSE j \in 1..Len(order) : order[j] = x
    IN  IF i = Len(order) THEN "end" ELSE order[i + 1]

\* lines 220-276: update_metrics up to the uptime
um_before_history(self, e) ==
    um_uptime(
        update_audio_metrics(
            update_gpu_metrics(
                update_temperature(
                    um_net(um_disk_usage(um_disk(um_cpu_memory(self, e), e,
                                                 e.time - self.prev_time), e),
                           e, e.time - self.prev_time),
                    e),
                e).s,
            e.audio),
        e, e.time)

\* one append statement of lines 279-291, to the series named f
um_append(self, e, k, f) == [self EXCEPT ![f] = um_history(self, e, k)[f]]

InitGraphs == Construct(NoLibraries, BareConstruction(0))

\* lines 892-894 and 220-276: the loop calls update_metrics, which runs up to the
\* first append
GraphSamplerBegin ==
    \E cpu \in ConcLoads :
        /\ sampler.pc = "idle"
        /\ passes < MaxGraphPasses
        /\ metrics' = um_before_history(metrics, ConcEnv(cpu, PsutilTypical.disk_usage))
        /\ sampler' = [pc |-> AppendOrder[1],
                       e |-> Some(ConcEnv(cpu, PsutilTypical.disk_usage))]
        /\ UNCHANGED <<flags, runner, telemetry, running, passes, completed, raised, env, penv,
                       cenv, client, gpu_call, gui, snapshots>>

\* the next append statement
GraphSamplerAppend ==
    /\ sampler.pc \notin {"idle", "end"}
    /\ metrics' = um_append(metrics, Get(sampler.e), passes + 1, sampler.pc)
    /\ sampler' = [sampler EXCEPT !.pc = After(AppendOrder, sampler.pc)]
    /\ UNCHANGED <<flags, runner, telemetry, running, passes, completed, raised, env, penv,
                   cenv, client, gpu_call, gui, snapshots>>

\* line 293, after which update_metrics returns
GraphSamplerEnd ==
    /\ sampler.pc = "end"
    /\ metrics' = um_prev_time(metrics, Get(sampler.e).time)
    /\ sampler' = [pc |-> "idle", e |-> NoneVal]
    /\ passes' = passes + 1
    /\ completed' = Append(completed, passes + 1)
    /\ raised' = FALSE
    /\ snapshots' = snapshots \cup {View(metrics')}
    /\ env' = sampler.e
    /\ penv' = env
    /\ UNCHANGED <<flags, runner, telemetry, running, cenv, client, gpu_call, gui>>

\* lines 966-971: update_graphs finds at least two timestamps and copies them
GraphBegin ==
    /\ gui.pc \in {"idle", "end"}
    /\ gui.reads < MaxGraphReads
    /\ Len(metrics.timestamps) >= 2
    /\ gui' = [pc |-> CopyOrder[2], view |-> [f \in {CopyOrder[1]} |-> metrics[f]],
               reads |-> gui.reads + 1, after |-> Len(completed)]
    /\ UNCHANGED <<flags, runner, telemetry, running, metrics, passes, completed, raised, env,
                   penv, cenv, client, gpu_call, sampler, snapshots>>

\* lines 975-1032: the next list(self.metrics.<series>)
GraphCopy ==
    /\ gui.pc \notin {"idle", "end"}
    /\ gui' = [gui EXCEPT
                  !.pc = After(CopyOrder, gui.pc),
                  !.view = [f \in (DOMAIN gui.view) \cup {gui.pc} |->
                               IF f = gui.pc THEN metrics[f] ELSE gui.view[f]]]
    /\ UNCHANGED <<flags, runner, telemetry, running, metrics, passes, completed, raised, env,
                   penv, cenv, client, gpu_call, sampler, snapshots>>

NextGraphs ==
    \/ GraphSamplerBegin \/ GraphSamplerAppend \/ GraphSamplerEnd
    \/ GraphBegin \/ GraphCopy

SpecGraphs == InitGraphs /\ [][NextGraphs]_vars

\* C14: the copy of the timestamps and the copy of a metric series taken by one
\* update_graphs run have the same length, their i-th entries were appended by
\* the same tick, and the ticks increase.
C14_CopiesAligned ==
    (gui.reads >= 1 /\ gui.pc # "idle")
    => \A f \in DOMAIN gui.view :
           /\ Len(gui.view[f]) = Len(gui.view["timestamps"])
           /\ \A i \in 1..Len(gui.view[f]) :
                  /\ i <= Len(gui.view["timestamps"])
                     => gui.view[f][i].tick = gui.view["timestamps"][i].tick
                  /\ i > 1 => gui.view[f][i - 1].tick < gui.view[f][i].tick

\* ---- SpecStop: data_collection_loop and on_closing -----------------------------
\* The position of the sampling thread in the loop of lines 892-898: "idle" at the
\* test of line 892, "pass" inside update_metrics, "sleep" in one of the two
\* time.sleep calls, "exited" after the loop.
MaxStopPasses == 2

\* while True
loop_condition_forever(is_running) == TRUE

\* line 892: while self.running
loop_condition(is_running) == is_running

InitStop == \E f \in {NoLibraries, AllLibraries} : Construct(f, BareConstruction(0))

\* line 892, the test passes: update_metrics is called and reads the clock
LoopEnter ==
    \E cpu \in ConcLoads, du \in {NoneVal, PsutilTypical.disk_usage} :
        /\ sampler.pc = "idle"
        /\ passes < MaxStopPasses
        /\ loop_condition(running)
        /\ sampler' = [pc |-> "pass", e |-> Some(ConcEnv(cpu, du))]
        /\ UNCHANGED <<flags, runner, telemetry, running, metrics, passes, completed, raised, env,
                       penv, cenv, client, gpu_call, gui, snapshots>>

\* line 892, the test fails: the loop and the thread end
LoopExit ==
    /\ sampler.pc = "idle"
    /\ ~loop_condition(running)
    /\ sampler' = [pc |-> "exited", e |-> NoneVal]
    /\ UNCHANGED <<flags, runner, telemetry, running, metrics, passes, completed, raised, env,
                   penv, cenv, client, gpu_call, gui, snapshots>>

\* an exception of the pass ends the loop
after_pass_unhandled(exc) == IF exc THEN "exited" ELSE "sleep"

\* lines 893-898: the position after the call of line 894: time.sleep(0.5) of
\* line 895 when it returned, time.sleep(1) of line 898 in the handler of
\* `except Exception` when it raised
after_pass(exc) == "sleep"

\* lines 894-898: update_metrics returns or raises, and the thread goes to sleep
LoopPass ==
    /\ sampler.pc = "pass"
    /\ LET r == update_metrics(metrics, Get(sampler.e), passes + 1)
       IN  /\ metrics' = r.s
           /\ raised' = r.exc
           /\ completed' = IF r.exc THEN completed ELSE Append(completed, passes + 1)
           /\ snapshots' = IF r.exc THEN snapshots ELSE snapshots \cup {View(r.s)}
    /\ passes' = passes + 1
    /\ env' = sampler.e
    /\ penv' = env
    /\ sampler' = [pc |-> after_pass(update_metrics(metrics, Get(sampler.e), passes + 1).exc),
                   e |-> NoneVal]
    /\ UNCHANGED <<flags, runner, telemetry, running, cenv, client, gpu_call, gui>>

\* lines 895 and 898: time.sleep returns
LoopSleep ==
    /\ sampler.pc = "sleep"
    /\ sampler' = [pc |-> "idle", e |-> NoneVal]
    /\ UNCHANGED <<flags, runner, telemetry, running, metrics, passes, completed, raised, env,
                   penv, cenv, client, gpu_call, gui, snapshots>>

\* line 1109: the window is closed
on_closing ==
    /\ running
    /\ running' = FALSE
    /\ UNCHANGED <<flags, runner, telemetry, metrics, passes, completed, raised, env,
                   penv, cenv, client, gpu_call, sampler, gui, snapshots>>

\* the steps of the sampling thread at the test and in the sleep
LoopControl == LoopEnter \/ LoopExit \/ LoopSleep

\* the call of line 894 ends, by returning or by raising: what a LoopPass step
\* does to the position of the thread
PassEnds ==
    /\ sampler.pc = "pass"
    /\ sampler' = [pc |-> "sleep", e |-> NoneVal]

NextStop == LoopEnter \/ LoopExit \/ LoopPass \/ LoopSleep \/ on_closing

\* the sampling thread is scheduled as long as it can run, and the platform calls
\* of a pass return
SpecStop ==
    InitStop /\ [][NextStop]_vars /\ WF_vars(LoopControl) /\ WF_sampler(PassEnds)

\* with stop signalled, a step starts no pass and runs no pass that was not in
\* flight; the thread leaves the sleep for the test
StopStep ==
    ~running
    => /\ sampler.pc # "pass" => (sampler'.pc # "pass" /\ passes' = passes)
       /\ sampler.pc = "sleep" => sampler'.pc \in {"sleep", "idle"}
       /\ sampler.pc = "idle" => sampler'.pc \in {"idle", "exited"}
       /\ ~running'

\* C15: once stop is signalled the sampling loop starts no pass other than the one
\* in flight, and the thread eventually leaves the loop, also when the last pass
\* raised.
C15_StopEndsSampling ==
    /\ [][StopStep]_vars
    /\ (~running) ~> (sampler.pc = "exited")
    /\ (~running /\ raised /\ sampler.pc = "sleep") ~> (sampler.pc = "exited")

\* stop was signalled, the last pass raised and the thread has left the loop
C15_Witness ==
    /\ ~running /\ sampler.pc = "exited"
    /\ passes = MaxStopPasses /\ raised /\ Len(completed) = 1

\* a pass that ends, by returning or by raising, leaves the thread in the loop
LoopKeptStep ==
    (sampler.pc = "pass" /\ sampler'.pc # "pass") => sampler'.pc = "sleep"

\* C30: an exception raised by a sampling pass does not end data_collection_loop:
\* the thread leaves the loop only with running False, and while running stays
\* True a failed pass is followed by the attempt of a new pass (as long as the
\* bound on the passes leaves room for one).
C30_LoopSurvivesException ==
    /\ [][LoopKeptStep]_vars
    /\ [](sampler.pc = "exited" => ~running)
    /\ (raised /\ sampler.pc = "sleep" /\ passes < MaxStopPasses)
           ~> (sampler.pc = "pass" \/ ~running)
    /\ (raised /\ sampler.pc = "sleep") ~> (sampler.pc = "idle" \/ sampler.pc = "exited")

\* the last pass raised, running is still True and the next pass is under way
C30_Witness ==
    /\ running /\ raised /\ passes >= 1
    /\ sampler.pc = "pass"

\* ---- SpecRetry: GPU backends failing in one tick and answering in the next ------
MaxRetryPasses == 2

\* WMI and GPUtil installed or not, NVML installed
RetryFlags == {[wmi |-> a, gpu |-> b, nvml |-> TRUE, audio |-> FALSE] : a, b \in BOOLEAN}

\* NVML found down at startup, and found with one device
RetryConstructions ==
    {BareConstruction(0), [BareConstruction(0) EXCEPT !.nvml = NvmlInitOneDevice]}

RetryNvmlSamples == {NvmlDown, NvmlMemRaises, NvmlNoTemp, NvmlOk}
RetryGputilSamples == {NoneVal, Some(<<SilentGpu>>), Some(<<KeywordGpu2GB>>)}
RetryWmiSamples == {NoneVal, Some(<<RadeonAdapter>>)}

InitRetry == \E f \in RetryFlags, c \in RetryConstructions : Construct(f, c)

\* the dashboard samples
RetryPass ==
    \E nv \in RetryNvmlSamples, g \in RetryGputilSamples, w \in RetryWmiSamples :
        /\ passes < MaxRetryPasses
        /\ IsNone(gpu_call)
        /\ Sample(GpuEnv(nv, g, w))

\* the client resolves its GPU metrics, tick after tick
RetryResolve ==
    \E nv \in RetryNvmlSamples, g \in RetryGputilSamples, w \in RetryWmiSamples :
        /\ passes = 0
        /\ Resolve(GpuEnv(nv, g, w))

NextRetry == RetryPass \/ RetryResolve

SpecRetry == InitRetry /\ [][NextRetry]_vars

\* a call of the NVML probe fails with the readings nv: the handle, utilization
\* or memory call raises, the memory total is 0, and, when temp_counts, also when
\* the temperature call raises
NvmlFails(nv, temp_counts) ==
    IF ~nv.handle_ok \/ IsNone(nv.util) \/ IsNone(nv.mem) THEN TRUE
    ELSE IF Get(nv.mem).total = 0 THEN TRUE
    ELSE temp_counts /\ IsNone(nv.temp)

\* usage and memory percent: of a result, as NVML reports them, as GPUtil
\* reports them for a device
UsageAndMemory(r) ==
    [gpu_usage |-> r.gpu_usage, gpu_memory_percent |-> r.gpu_memory_percent]
NvmlAnswer(nv) ==
    [gpu_usage |-> Num(Get(nv.util)),
     gpu_memory_percent |-> Mul(Rat(Get(nv.mem).used, Get(nv.mem).total), Num(100))]
GputilAnswer(gpu) ==
    [gpu_usage |-> LiveUsage(gpu), gpu_memory_percent |-> LiveMemoryPercent(gpu)]

\* NVML was found working at startup
DashNvmlUp == NVML_AVAILABLE /\ SystemMetrics_init(cenv).nvml_initialized
ClientNvmlUp ==
    /\ NVML_AVAILABLE /\ TelemetryClient_init(cenv).gpu_initialized
    /\ TelemetryClient_init(cenv).nvidia_gpus # <<>>

\* the GPUtil call returns devices that can be used
DashGputilAnswers(e) == IF DashGputilRaises(e) THEN FALSE ELSE Get(e.gputil) # <<>>
ClientGputilAnswers(e) == IF IsNone(e.gputil) THEN FALSE ELSE Get(e.gputil) # <<>>

\* a dashboard pass under e after a pass under the environment before: NVML
\* failing in this tick leaves the tick to GPUtil, and a backend that failed in
\* the tick before and answers now supplies usage and memory percent
DashRetries(before, e, temp_counts) ==
    /\ ~raised'
    /\ ((~DashNvmlUp \/ NvmlFails(e.nvml, temp_counts))
          /\ GPU_AVAILABLE /\ DashGputilAnswers(e))
       => UsageAndMemory(metrics') = GputilAnswer(MaxMemoryGpu(Get(e.gputil)))
    /\ (DashNvmlUp /\ ~IsNone(before) /\ ~NvmlFails(e.nvml, temp_counts))
       => (NvmlFails(Get(before).nvml, temp_counts)
             => UsageAndMemory(metrics') = NvmlAnswer(e.nvml))
    /\ (GPU_AVAILABLE /\ ~IsNone(before) /\ DashGputilAnswers(e)
          /\ (~DashNvmlUp \/ NvmlFails(e.nvml, temp_counts)))
       => (DashGputilRaises(Get(before))
             => UsageAndMemory(metrics') = GputilAnswer(MaxMemoryGpu(Get(e.gputil))))

\* the same for a get_gpu_metrics call of the client
ClientRetries(before, e, temp_counts) ==
    /\ ~Get(gpu_call').result.exc
    /\ ((~ClientNvmlUp \/ NvmlFails(e.nvml, temp_counts))
          /\ GPU_AVAILABLE /\ ClientGputilAnswers(e)
          /\ ~IsNone(GputilTarget(Get(e.gputil)).load))
       => UsageAndMemory(Get(gpu_call').result.r)
              = GputilAnswer(GputilTarget(Get(e.gputil)))
    /\ (ClientNvmlUp /\ ~IsNone(before) /\ ~NvmlFails(e.nvml, temp_counts))
       => (NvmlFails(Get(before).e.nvml, temp_counts)
             => UsageAndMemory(Get(gpu_call').result.r) = NvmlAnswer(e.nvml))
    /\ (GPU_AVAILABLE /\ ~IsNone(before) /\ ClientGputilAnswers(e)
          /\ ~IsNone(GputilTarget(Get(e.gputil)).load)
          /\ (~ClientNvmlUp \/ NvmlFails(e.nvml, temp_counts)))
       => (IsNone(Get(before).e.gputil)
             => UsageAndMemory(Get(gpu_call').result.r)
                    = GputilAnswer(GputilTarget(Get(e.gputil))))

RetryStep(temp_counts) ==
    /\ passes' = passes + 1 => DashRetries(env, Get(env'), temp_counts)
    /\ gpu_call' # gpu_call => ClientRetries(gpu_call, Get(gpu_call').e, temp_counts)

\* the device and backend that supplied the GPU values of the last dashboard pass:
\* NVML's first device, GPUtil's device with the largest memory, the WMI adapter
\* chosen, or none
DashSupplierName ==
    IF DashNvmlUp /\ ~NvmlFails(Get(env).nvml, FALSE)
    THEN IF cenv.nvml.names # <<>> /\ ~IsNone(cenv.nvml.names[1])
         THEN Get(cenv.nvml.names[1]) ELSE S_No_GPU_detected
    ELSE IF GPU_AVAILABLE /\ DashGputilAnswers(Get(env))
    THEN MaxMemoryGpu(Get(Get(env).gputil)).name
    ELSE IF WmiAnswers(Get(env))
    THEN WmiPrimary(Candidates(Get(env).wmi_gpu)).Name
    ELSE S_No_GPU_detected

\* C29: after every dashboard pass gpu_name names the device of the backend that
\* supplied gpu_usage, gpu_memory_* and gpu_temp of that pass, whatever the
\* backends did in the passes before.
C29_NameOfSupplier ==
    (passes >= 1 /\ ~raised) => metrics.gpu_name = DashSupplierName

MaxRunFailures == 2

\* socket.socket() raises, socket.connect() raises, or the connection is made
ConnectOutcomes == {"socket_raises", "connect_raises", "connected"}

\* lines 379-389: self.socket is assigned before connect is called
connect_to_arduino(self, outcome) ==
    IF outcome = "socket_raises" THEN [s |-> self, ret |-> FALSE]
    ELSE IF outcome = "connect_raises"
    THEN [s |-> [self EXCEPT !.socket = Some([connected |-> FALSE, closed |-> FALSE])],
          ret |-> FALSE]
    ELSE [s |-> [self EXCEPT !.socket = Some([connected |-> TRUE, closed |-> FALSE])],
          ret |-> TRUE]

\* lines 391-400: socket.send raises on None, on a socket that is not connected
\* and when the link is down
send_telemetry(self, link_up) ==
    IF IsNone(self.socket) THEN FALSE
    ELSE Get(self.socket).connected /\ ~Get(self.socket).closed /\ link_up

\* the socket is left as it is
reset_socket_skipped(self) == self

\* lines 422-423 and 434-436: self.socket.close(); self.socket = None
reset_socket(self) == [self EXCEPT !.socket = NoneVal]

\* line 406: while self.running
run_condition(is_running) == is_running

\* the environments of a collect_metrics call: psutil.disk_usage answers or raises
RunEnvs ==
    {CounterEnv(1, NoneVal, NoneVal),
     [CounterEnv(1, NoneVal, NoneVal) EXCEPT !.psutil = PsutilDiskUsageFails]}

InitRun == \E f \in GpuFlags : Construct(f, BareConstruction(0))

\* line 404
RunStart ==
    /\ runner.pc = "idle"
    /\ client' = [client EXCEPT !.running = TRUE]
    /\ runner' = [runner EXCEPT !.pc = "loop"]
    /\ UNCHANGED <<flags, telemetry, running, metrics, passes, completed, raised, env,
                   penv, cenv, gpu_call, sampler, gui, snapshots>>

\* line 406
RunLoop ==
    /\ runner.pc = "loop"
    /\ run_condition(client.running)
    /\ runner' = [runner EXCEPT !.pc = "body", !.closed = FALSE]
    /\ UNCHANGED <<flags, telemetry, running, metrics, passes, completed, raised, env,
                   penv, cenv, client, gpu_call, sampler, gui, snapshots>>

\* lines 409-412: not self.socket, connect_to_arduino is called
RunConnect ==
    \E outcome \in ConnectOutcomes :
        /\ runner.pc = "body"
        /\ IsNone(client.socket)
        /\ outcome # "connected" => runner.failures < MaxRunFailures
        /\ client' = connect_to_arduino(client, outcome).s
        /\ runner' = [runner EXCEPT
                         !.pc = IF connect_to_arduino(client, outcome).ret
                                THEN "collect" ELSE "retry_sleep",
                         !.connected = Some(connect_to_arduino(client, outcome).ret),
                         !.attempted = TRUE,
                         !.failures = IF outcome = "connected" THEN @ ELSE @ + 1]
        /\ UNCHANGED <<flags, telemetry, running, metrics, passes, completed, raised,
                       env, penv, cenv, gpu_call, sampler, gui, snapshots>>

\* line 409: self.socket is true, connect_to_arduino is not called
RunKeepSocket ==
    /\ runner.pc = "body"
    /\ ~IsNone(client.socket)
    /\ runner' = [runner EXCEPT !.pc = "collect"]
    /\ UNCHANGED <<flags, telemetry, running, metrics, passes, completed, raised, env,
                   penv, cenv, client, gpu_call, sampler, gui, snapshots>>

\* line 415, and the handler of lines 431-437 when collect_metrics raises
RunCollect ==
    \E e \in RunEnvs :
        /\ runner.pc = "collect"
        /\ um_disk_usage_raises(e) => runner.failures < MaxRunFailures
        /\ LET r == collect_metrics(client, e)
           IN  /\ client' = IF r.exc THEN reset_socket(r.s) ELSE r.s
               /\ telemetry' = Some([e |-> e, exc |-> r.exc, cpu_temp |-> r.cpu_temp,
                                     packet |-> r.packet])
               /\ runner' = [runner EXCEPT
                                !.pc = IF r.exc THEN "error_sleep" ELSE "send",
                                !.closed = r.exc,
                                !.attempted = IF r.exc THEN FALSE ELSE @,
                                !.failures = IF r.exc THEN @ + 1 ELSE @]
        /\ UNCHANGED <<flags, running, metrics, passes, completed, raised, env, penv,
                       cenv, gpu_call, sampler, gui, snapshots>>

\* lines 417-424
RunSend ==
    \E link_up \in BOOLEAN :
        /\ runner.pc = "send"
        /\ ~link_up => runner.failures < MaxRunFailures
        /\ client' = IF send_telemetry(client, link_up) THEN client
                     ELSE reset_socket(client)
        /\ runner' = [runner EXCEPT
                         !.pc = "sleep",
                         !.sent = Some(send_telemetry(client, link_up)),
                         !.closed = ~send_telemetry(client, link_up),
                         !.attempted = IF send_telemetry(client, link_up) THEN @
                                       ELSE FALSE,
                         !.failures = IF link_up THEN @ ELSE @ + 1]
        /\ UNCHANGED <<flags, telemetry, running, metrics, passes, completed, raised,
                       env, penv, cenv, gpu_call, sampler, gui, snapshots>>

\* lines 411, 426, 437: time.sleep returns and the loop goes round
RunSleep ==
    /\ runner.pc \in {"sleep", "retry_sleep", "error_sleep"}
    /\ runner' = [runner EXCEPT !.pc = "loop"]
    /\ UNCHANGED <<flags, telemetry, running, metrics, passes, completed, raised, env,
                   penv, cenv, client, gpu_call, sampler, gui, snapshots>>

\* lines 428-430 and 439-441: KeyboardInterrupt in the try block leaves the loop
RunInterrupt ==
    /\ runner.pc \in {"body", "collect", "send", "sleep", "retry_sleep"}
    /\ client' = [client EXCEPT
                     !.running = FALSE,
                     !.socket = IF IsNone(@) THEN @
                                ELSE Some([Get(@) EXCEPT !.closed = TRUE])]
    /\ runner' = [runner EXCEPT !.pc = "done", !.closed = ~IsNone(client.socket)]
    /\ UNCHANGED <<flags, telemetry, running, metrics, passes, completed, raised, env,
                   penv, cenv, gpu_call, sampler, gui, snapshots>>

RunPositions ==
    {"idle", "loop", "body", "collect", "send", "sleep", "retry_sleep", "error_sleep",
     "done"}

\* the values runner can take
RunnerStates ==
    [pc : RunPositions, connected : {NoneVal, Some(TRUE), Some(FALSE)},
     sent : {NoneVal, Some(TRUE), Some(FALSE)}, attempted : BOOLEAN,
     closed : BOOLEAN, failures : 0..MaxRunFailures]

\* run moves on without being interrupted
RunAdvances ==
    /\ runner.pc # "done"
    /\ \E r \in RunnerStates : r.pc # "done" /\ runner' = r

NextRun ==
    \/ RunStart \/ RunLoop \/ RunConnect \/ RunKeepSocket \/ RunCollect \/ RunSend
    \/ RunSleep \/ RunInterrupt

\* the thread of run is scheduled as long as the loop has not been left
SpecRun == InitRun /\ [][NextRun]_vars /\ WF_runner(RunAdvances)

\* C26: run sends telemetry only over a socket on which connect succeeded: when
\* send_telemetry is about to be called, self.socket is a connected socket and the
\* last connect_to_arduino call returned True.
C26_SendOnlyWhenConnected ==
    runner.pc = "send"
    => /\ ~IsNone(client.socket)
       /\ Get(client.socket).connected
       /\ runner.connected = Some(TRUE)

\* a step in which send_telemetry returned False or the loop body raised closes
\* the socket and sets self.socket to None
FailureResets ==
    /\ (runner.pc = "send" /\ runner'.pc = "sleep" /\ runner'.sent = Some(FALSE))
       => (IsNone(client'.socket) /\ runner'.closed)
    /\ (runner.pc = "collect" /\ runner'.pc = "error_sleep")
       => (IsNone(client'.socket) /\ runner'.closed)

\* telemetry is about to be sent, or was sent, only after connect_to_arduino was
\* called since the socket was last reset
AttemptBeforeSend == runner.pc = "send" => (runner.attempted /\ ~IsNone(client.socket))

\* C27: after a send that fails or an exception in the loop body the socket is
\* closed and self.socket is None; no telemetry is sent before connect_to_arduino
\* has been called again; and while the client keeps running, after a failure
\* connect_to_arduino is called again and, once it has returned True, telemetry is
\* sent again.
C27_ReconnectAfterFailure ==
    /\ [][FailureResets]_vars
    /\ [](AttemptBeforeSend)
    /\ (runner.closed /\ IsNone(client.socket) /\ runner.pc # "done")
          ~> (runner.attempted \/ runner.pc = "done")
    /\ (runner.failures > 0 /\ runner.connected = Some(TRUE) /\ runner.pc = "collect")
          ~> (runner.pc = "sleep" \/ runner.pc = "error_sleep" \/ runner.pc = "done")
    /\ (runner.failures > 0 /\ runner.pc # "done")
          ~> ((runner.sent = Some(TRUE) /\ runner.pc = "sleep") \/ runner.pc = "done")

\* the last send failed, the socket was reset, connect_to_arduino was called again
\* and returned True, and the next telemetry is about to be sent
C27_Witness ==
    /\ runner.pc = "send" /\ runner.sent = Some(FALSE) /\ runner.failures > 0
    /\ runner.attempted /\ runner.connected = Some(TRUE)
    /\ ~IsNone(client.socket) /\ Get(client.socket).connected

====
